---- MODULE Spec2Model ----
(***************************************************************************)
(* Model of the Binance data collector: the order-book reconstruction of   *)
(* src/src/orderbook_manager.py driven by the spot receive loop of         *)
(* src/src/collector.py, writing snapshots into the DataBuffer of          *)
(* src/src/buffer.py and gaps into the IntegrityLogger of                  *)
(* src/src/integrity_logger.py.                                            *)
(*                                                                         *)
(* A dict is a sequence of <<key, value>> pairs in insertion order (the    *)
(* order Python's dict keeps and sorted() is stable over).  Prices and     *)
(* quantities are the strings of the feed; Float gives a price string's    *)
(* numeric value in hundredths.  An Optional return value is a sequence of *)
(* length 0 (None) or 1.                                                   *)
(***************************************************************************)
EXTENDS Integers, Sequences, FiniteSets, TLC

\* ------------------------------------------------------------- bounds
\* Update ids of the first instrument's feed are 1..MaxSeq.
MaxSeq == 2
\* The wall clock runs from 1 to MaxTime.
MaxTime == 4
\* The buffer takes frames while it holds fewer than MaxBuf records.
MaxBuf == 1
\* Connection failures are taken while the reconnect log is shorter.
MaxReconnects == 1
\* Failures of the spot loop are taken while fewer have come in a row.
MaxFails == 7

\* ------------------------------------------------- program constants
\* apply_diff's grace period after initialize, in seconds
GracePeriod == 3
\* get_top_levels' default for levels, which apply_diff relies on
DefaultLevels == 20
\* IntegrityLogger.MAX_GAP_BUFFER
MAX_GAP_BUFFER == 10000
\* Collector.reconnect_delay: its base and its cap
BaseDelay == 1
MaxDelay == 60

\* Config.symbols, as configured (lower case), in order
Symbols == <<"btcusdt", "ethusdt">>

\* str.upper() on the configured symbols and on the stream tags
Upper(s) ==
  CASE s = "btcusdt" -> "BTCUSDT"
    [] s = "ethusdt" -> "ETHUSDT"
    [] OTHER -> s

UpperSymbols == {Upper(Symbols[i]) : i \in 1..Len(Symbols)}

\* float() of a price string, in hundredths
Float(p) ==
  CASE p = "1.0" -> 100
    [] p = "1.00" -> 100
    [] p = "2.0" -> 200
    [] p = "3.0" -> 300
    [] OTHER -> 0

\* ------------------------------------------------------------ dicts
\* the sum of f[x] over x in S
RECURSIVE SumOver(_, _)
SumOver(f, S) ==
  IF S = {} THEN 0
  ELSE LET x == CHOOSE y \in S : TRUE IN f[x] + SumOver(f, S \ {x})

RECURSIVE DictHas(_, _)
DictHas(d, k) ==
  IF d = <<>> THEN FALSE
  ELSE IF Head(d)[1] = k THEN TRUE ELSE DictHas(Tail(d), k)

RECURSIVE DictGet(_, _)
DictGet(d, k) ==
  IF d = <<>> THEN "absent"
  ELSE IF Head(d)[1] = k THEN Head(d)[2] ELSE DictGet(Tail(d), k)

\* d[k] = v: an existing key keeps its place, a new key goes last
DictSet(d, k, v) ==
  IF DictHas(d, k)
  THEN [i \in 1..Len(d) |-> IF d[i][1] = k THEN <<k, v>> ELSE d[i]]
  ELSE Append(d, <<k, v>>)

\* d.pop(k, None)
DictPop(d, k) == SelectSeq(d, LAMBDA e : e[1] # k)

\* {p: q for p, q in pairs}
RECURSIVE DictFromPairs(_)
DictFromPairs(pairs) ==
  IF pairs = <<>> THEN <<>>
  ELSE LET n == Len(pairs)
       IN DictSet(DictFromPairs(SubSeq(pairs, 1, n - 1)), pairs[n][1], pairs[n][2])

\* ---------------------------------------------------- OrderBookState
\* OrderBookState(): the state of a book after construction
NewBook ==
  [bids |-> <<>>, asks |-> <<>>, last_update_id |-> 0,
   initialized |-> FALSE, init_time |-> 0]

\* the qty test of _apply_updates: a comparison of strings
IsRemoval(qty) == qty = "0" \/ qty = "0.00000000"

\* OrderBookManager._apply_updates
RECURSIVE ApplyUpdates(_, _)
ApplyUpdates(book_side, updates) ==
  IF updates = <<>> THEN book_side
  ELSE LET price == Head(updates)[1]
           qty == Head(updates)[2]
       IN ApplyUpdates(
            IF IsRemoval(qty) THEN DictPop(book_side, price)
            ELSE DictSet(book_side, price, qty),
            Tail(updates))

\* sorted(items, key=lambda x: float(x[0])): a stable insertion sort
RECURSIVE InsertAsc(_, _)
InsertAsc(sorted, e) ==
  IF sorted = <<>> THEN <<e>>
  ELSE IF Float(e[1]) < Float(Head(sorted)[1]) THEN <<e>> \o sorted
  ELSE <<Head(sorted)>> \o InsertAsc(Tail(sorted), e)

RECURSIVE SortedAsc(_)
SortedAsc(items) ==
  IF items = <<>> THEN <<>>
  ELSE LET n == Len(items)
       IN InsertAsc(SortedAsc(SubSeq(items, 1, n - 1)), items[n])

\* sorted(..., reverse=True): descending, equal keys keep their order
RECURSIVE InsertDesc(_, _)
InsertDesc(sorted, e) ==
  IF sorted = <<>> THEN <<e>>
  ELSE IF Float(e[1]) > Float(Head(sorted)[1]) THEN <<e>> \o sorted
  ELSE <<Head(sorted)>> \o InsertDesc(Tail(sorted), e)

RECURSIVE SortedDesc(_)
SortedDesc(items) ==
  IF items = <<>> THEN <<>>
  ELSE LET n == Len(items)
       IN InsertDesc(SortedDesc(SubSeq(items, 1, n - 1)), items[n])

\* seq[:n] for n >= 0
Take(seq, n) == SubSeq(seq, 1, IF n < Len(seq) THEN n ELSE Len(seq))

\* get_top_levels without reverse=True for the bids
GetTopLevels_NoReverse(sym, state, levels, event_time, recv_time) ==
  [symbol |-> sym,
   event_time |-> event_time,
   recv_time |-> recv_time,
   last_update_id |-> state.last_update_id,
   bids |-> Take(SortedAsc(state.bids), levels),
   asks |-> Take(SortedAsc(state.asks), levels)]

\* OrderBookManager.get_top_levels
GetTopLevels(sym, state, levels, event_time, recv_time) ==
  [symbol |-> sym,
   event_time |-> event_time,
   recv_time |-> recv_time,
   last_update_id |-> state.last_update_id,
   bids |-> Take(SortedDesc(state.bids), levels),
   asks |-> Take(SortedAsc(state.asks), levels)]

\* validate_sequence without its lower bound, F <= expected
ValidateSequence_UpperOnly(state, first_update_id, final_update_id) ==
  IF ~state.initialized THEN FALSE
  ELSE state.last_update_id + 1 <= final_update_id

\* validate_sequence with F < expected for F <= expected
ValidateSequence_Strict(state, first_update_id, final_update_id) ==
  IF ~state.initialized THEN FALSE
  ELSE LET expected == state.last_update_id + 1
       IN first_update_id < expected /\ expected <= final_update_id

\* OrderBookManager.validate_sequence
ValidateSequence(state, first_update_id, final_update_id) ==
  IF ~state.initialized THEN FALSE
  ELSE LET expected == state.last_update_id + 1
       IN first_update_id <= expected /\ expected <= final_update_id

\* the staleness test against last_update_id instead of expected
IsStale_OffByOne(state, event) == event.final_update_id < state.last_update_id

\* apply_diff's test for a diff that was applied already
IsStale(state, event) == event.final_update_id < state.last_update_id + 1

\* the grace test with its comparison turned around
InGracePeriod_Inverted(state, t) == t - state.init_time > GracePeriod

\* apply_diff's test for the grace period after initialize
InGracePeriod(state, t) == t - state.init_time < GracePeriod

\* record_gap with expected_id and actual_id exchanged
GapRecord_Swapped(sym, expected_id, actual_id, timestamp) ==
  [timestamp |-> timestamp, symbol |-> sym,
   expected_id |-> actual_id, actual_id |-> expected_id]

\* the record IntegrityLogger.record_gap appends
GapRecord(sym, expected_id, actual_id, timestamp) ==
  [timestamp |-> timestamp, symbol |-> sym,
   expected_id |-> expected_id, actual_id |-> actual_id]

\* -x // 2 of Python, for x >= 0: the floor of -x/2
NegFloorHalf(x) == -((x + 1) \div 2)

\* the first -k items instead of the last
LastItems_First(seq, k) ==
  IF -k >= Len(seq) THEN seq ELSE SubSeq(seq, 1, -k)

\* seq[k:] for k < 0: the last -k items
LastItems(seq, k) ==
  IF -k >= Len(seq) THEN seq ELSE SubSeq(seq, Len(seq) + k + 1, Len(seq))

\* IntegrityLogger.record_gap
RecordGap(log, sym, expected_id, actual_id, timestamp) ==
  LET kept == IF Len(log) >= MAX_GAP_BUFFER
              THEN LastItems(log, NegFloorHalf(MAX_GAP_BUFFER))
              ELSE log
  IN Append(kept, GapRecord(sym, expected_id, actual_id, timestamp))

\* a gap that is recorded while the book stays initialized
GapOutcome_StaysInitialized(state, log, sym, event, t) ==
  [book |-> state,
   gaps |-> RecordGap(log, sym, state.last_update_id + 1, event.first_update_id, t),
   ret |-> <<>>]

\* apply_diff on a gap outside the grace period
GapOutcome(state, log, sym, event, t) ==
  [book |-> [state EXCEPT !.initialized = FALSE],
   gaps |-> RecordGap(log, sym, state.last_update_id + 1, event.first_update_id, t),
   ret |-> <<>>]

\* apply_diff advancing last_update_id to U instead of u
AppliedOutcome_FirstId(state, log, sym, event) ==
  LET applied == [state EXCEPT
                    !.bids = ApplyUpdates(state.bids, event.bids),
                    !.asks = ApplyUpdates(state.asks, event.asks),
                    !.last_update_id = event.first_update_id]
  IN [book |-> applied,
      gaps |-> log,
      ret |-> <<GetTopLevels(sym, applied, DefaultLevels,
                             event.event_time, event.recv_time)>>]

\* apply_diff on a diff that continues the book
AppliedOutcome(state, log, sym, event) ==
  LET applied == [state EXCEPT
                    !.bids = ApplyUpdates(state.bids, event.bids),
                    !.asks = ApplyUpdates(state.asks, event.asks),
                    !.last_update_id = event.final_update_id]
  IN [book |-> applied,
      gaps |-> log,
      ret |-> <<GetTopLevels(sym, applied, DefaultLevels,
                             event.event_time, event.recv_time)>>]

\* OrderBookManager.apply_diff: the book and the gap log after the call,
\* and the value returned
ApplyDiff(state, log, sym, event, t) ==
  LET none == [book |-> state, gaps |-> log, ret |-> <<>>]
  IN IF ~state.initialized THEN none
     ELSE IF IsStale(state, event) THEN none
     ELSE IF ~ValidateSequence(state, event.first_update_id, event.final_update_id)
          THEN IF InGracePeriod(state, t) THEN none
               ELSE GapOutcome(state, log, sym, event, t)
     ELSE AppliedOutcome(state, log, sym, event)


\* ------------------------------------------------------------ inputs
\* the update ids of an instrument's feed: each instrument has its own
\* ids, and those of the instruments after the first stay 1..2, which
\* are enough for every outcome of apply_diff
FeedIds(tag) == IF tag = Symbols[1] THEN 1..MaxSeq ELSE 1..2

\* the (U, u) ranges a depth frame of an instrument may carry
SeqRanges(tag) == {r \in FeedIds(tag) \X FeedIds(tag) : r[1] <= r[2]}

\* the lastUpdateId of a REST snapshot; 0 is data.get's default
Cursors(tag) == {id - 1 : id \in FeedIds(tag)}

\* the price-level lists a depth frame may carry, as <<bids, asks>>
DiffLevels ==
  { << << <<"1.0", "0.00000000">> >>, << <<"2.0", "2.5">> >> >> }

\* the bids and asks arrays of a REST snapshot, as <<bids, asks>>
SnapshotLevels ==
  { << << <<"1.0", "1.5">> >>, << <<"2.0", "1.5">> >> >> }

\* the E field of a depth frame
EventTimes == {1000}

\* ------------------------------------------------------------- state
VARIABLES
  pc,               \* where the spot loop of Collector._run_spot stands
  cur,              \* the index in Symbols of the book that is being
                    \* synchronized or re-initialized; 0 otherwise
  reconnect_delay,  \* Collector.reconnect_delay
  disconnect_time,  \* Collector._disconnect_time; 0 is None
  books,            \* OrderBookManager.books
  now,              \* time.time()
  gaps,             \* IntegrityLogger._gaps
  reconnects,       \* IntegrityLogger._reconnects
  orderbook_data,   \* DataBuffer._orderbook_data
  covered,          \* history: per book, the id up to which its snapshot
                    \* and the diffs applied since carry every update
  conn_synced,      \* history: the books initialized on this connection
  complete,         \* history: per buffered snapshot, whether the diffs
                    \* applied since initialize carried every id up to it
  call,             \* history: the last call made on the manager itself
  init_failed,      \* history: the books whose last initialize failed
  trade_data,       \* DataBuffer._trade_data
  liquidation_data, \* DataBuffer._liquidation_data
  kline_data,       \* DataBuffer._kline_data
  funding_data,     \* DataBuffer._funding_data
  added,            \* history: per record added to the buffer, in order,
                    \* where it was added and the drain that is due to
                    \* return it
  drains,           \* history: the results of DataBuffer.flush, in order
  shared,           \* history: the lists that the last result of flush
                    \* shares with the live buffer, as <<kind, symbol>>
  files,            \* the files of Config.data_dir, but for the ledger:
                    \* per path, what the file holds
  ledger,           \* the entries of checksums.json in Config.data_dir
  flush_stats,      \* IntegrityLogger._flush_stats
  pending_queue,    \* Syncer._pending_queue
  fl,               \* the frame of Flusher.flush_now: where it stands and
                    \* its locals
  crashes,          \* history: how often the process was killed
  cloud_remote,     \* Config.cloud_remote
  synced_files,     \* Syncer._synced_files
  sync_events,      \* IntegrityLogger._sync_events
  sy,               \* the frame of Syncer.run: where it stands, its
                    \* locals and, as history, what its last upload and
                    \* its last cleanup did
  fails,            \* history: the failures of the spot loop since
                    \* reconnect_delay was last reset
  futures,          \* the frame of Collector._run_futures: where it
                    \* stands and its local delay
  frame,            \* history: the frame last handed to _handle_message
  main,             \* the frame of main: where it stands, its shutdown
                    \* event, the tasks it gathers that still run and, as
                    \* history, its calls of flush_now and what it logged
  probe             \* a function under test: its arguments and its result

vars == <<pc, cur, reconnect_delay, disconnect_time, books, now, gaps,
          reconnects, orderbook_data, covered, conn_synced,
          complete, call, init_failed, probe, trade_data,
          liquidation_data, kline_data, funding_data, added, drains, shared,
          files, ledger, flush_stats, pending_queue, fl, crashes,
          cloud_remote, synced_files, sync_events, sy, fails, futures,
          frame, main>>

loop_vars == <<pc, cur, reconnect_delay, disconnect_time, fails, futures>>
collector_vars == <<loop_vars, frame>>
buffer_vars == <<trade_data, liquidation_data, kline_data, funding_data,
                 added, drains, shared>>
disk_vars == <<files, ledger>>
flusher_vars == <<pending_queue, fl, crashes>>
syncer_vars == <<cloud_remote, synced_files, sync_events, sy>>
store_vars == <<buffer_vars, disk_vars, flusher_vars, flush_stats, syncer_vars,
                main>>
history_vars == <<covered, conn_synced, complete, call, probe>>

\* history: no call, or a call (op) that is not apply_diff
NoCall(op) ==
  [op |-> op, sym |-> "", first_update_id |-> 0, final_update_id |-> 0,
   bids |-> <<>>, asks |-> <<>>, pre |-> NewBook, pregaps |-> <<>>,
   t |-> 0, ret |-> <<>>]

\* the number of records the buffer holds
Buffered == SumOver([s \in UpperSymbols |-> Len(orderbook_data[s])], UpperSymbols)

\* no function is under test
NoProbe == [op |-> "none"]

\* the coroutines that main gathers
AllTasks == {"collector", "flusher", "syncer", "time_sync", "periodic_log",
             "daily_summary", "force_flush_monitor"}

\* the frame of main at its asyncio.wait, with every task running
MainWaiting ==
  [pc |-> "waiting", event |-> FALSE, alive |-> AllTasks, attempts |-> 0,
   logged |-> FALSE, forced |-> FALSE]

\* no frame has been handed to _handle_message
NoFrame == [turn |-> 0, stream |-> <<>>, closed |-> FALSE, none |-> FALSE]

\* the frame of Syncer.run before its first cycle; sent and uploaded are
\* history: the bytes a file held when its upload started, and the bytes
\* that an upload has copied to the remote, per path
SyncerSleeping ==
  [pc |-> "sleep", retry_queue |-> <<>>, i |-> 0, returncode |-> "none",
   unlink_failed |-> {}, sent |-> <<>>, uploaded |-> {}]

\* the components as main() constructs them, but for the configuration
Constructed ==
  /\ pc = "Connecting"
  /\ cur = 0
  /\ reconnect_delay = BaseDelay
  /\ disconnect_time = 0
  /\ books = [s \in UpperSymbols |-> NewBook]
  /\ now = 1
  /\ gaps = <<>>
  /\ reconnects = <<>>
  /\ orderbook_data = [s \in UpperSymbols |-> <<>>]
  /\ covered = [s \in UpperSymbols |-> 0]
  /\ conn_synced = {}
  /\ complete = [s \in UpperSymbols |-> <<>>]
  /\ call = NoCall("none")
  /\ init_failed = {}
  /\ trade_data = [s \in UpperSymbols |-> <<>>]
  /\ liquidation_data = [s \in UpperSymbols |-> <<>>]
  /\ kline_data = [s \in UpperSymbols |-> <<>>]
  /\ funding_data = <<>>
  /\ added = <<>>
  /\ drains = <<>>
  /\ shared = {}
  /\ files = <<>>
  /\ ledger = <<>>
  /\ flush_stats = <<>>
  /\ pending_queue = <<>>
  /\ fl = [pc |-> "idle"]
  /\ crashes = 0
  /\ synced_files = {}
  /\ sync_events = <<>>
  /\ sy = SyncerSleeping
  /\ fails = 0
  /\ futures = [pc |-> "Connecting", delay |-> BaseDelay]
  /\ frame = NoFrame
  /\ main = MainWaiting

\* the state after main() has constructed the components
Init == Constructed /\ probe = NoProbe /\ cloud_remote = ""

\* ------------------------------------------------- OrderBookManager
\* OrderBookManager.initialize, once the response has arrived
Initialize(sym, levels, lastUpdateId) ==
  /\ books' = [books EXCEPT ![Upper(sym)] =
                 [bids |-> DictFromPairs(levels[1]),
                  asks |-> DictFromPairs(levels[2]),
                  last_update_id |-> lastUpdateId,
                  initialized |-> TRUE,
                  init_time |-> now]]
  /\ covered' = [covered EXCEPT ![Upper(sym)] = lastUpdateId]
  /\ conn_synced' = conn_synced \cup {Upper(sym)}

\* the body of a REST response that is not a snapshot: the error object
\* the exchange answers with, which has none of a snapshot's keys
ErrorResponse == [code |-> 0 - 1003, msg |-> "Too many requests."]

\* data.get(key, default) on a parsed response
ResponseGet(data, key, default) ==
  IF key \in DOMAIN data THEN data[key] ELSE default

\* OrderBookManager.initialize, once a response of body data has arrived
InitializeFrom(sym, data) ==
  Initialize(sym,
             <<ResponseGet(data, "bids", <<>>), ResponseGet(data, "asks", <<>>)>>,
             ResponseGet(data, "lastUpdateId", 0))

\* --------------------------------------------------------- Collector
\* _reset_reconnect_delay
ResetReconnectDelay == BaseDelay

\* a doubling that is never capped
IncreaseReconnectDelay_Uncapped(delay) == delay * 2

\* _increase_reconnect_delay
IncreaseReconnectDelay(delay) ==
  IF delay * 2 < MaxDelay THEN delay * 2 ELSE MaxDelay

\* the except branch of _run_spot, up to the sleep
SpotFailure(reason) ==
  /\ Len(reconnects) < MaxReconnects
  /\ fails < MaxFails
  /\ fails' = fails + 1
  /\ disconnect_time' = (IF disconnect_time # 0 THEN disconnect_time ELSE now)
  /\ reconnects' = Append(reconnects, [timestamp |-> now, reason |-> reason])
  /\ pc' = "Disconnected"
  /\ cur' = 0
  /\ UNCHANGED <<reconnect_delay, futures, frame>>

\* _connect_and_collect: websockets.connect succeeds
ConnectOk ==
  /\ pc = "Connecting"
  /\ disconnect_time' = 0
  /\ reconnect_delay' = ResetReconnectDelay
  /\ fails' = 0
  /\ pc' = "Synchronizing"
  /\ cur' = 1
  /\ conn_synced' = {}
  /\ UNCHANGED <<store_vars, futures, frame, books, now, gaps, reconnects, orderbook_data,
                 covered, complete, call, init_failed, probe>>

\* _connect_and_collect: websockets.connect raises
ConnectFail ==
  /\ pc = "Connecting"
  /\ SpotFailure("error")
  /\ UNCHANGED <<store_vars, books, now, gaps, orderbook_data, history_vars, init_failed>>

\* a loop that ends after the sleep
AfterSleep_Stop == "Stopped"

\* _run_spot: where the 'while True' goes after the handler of a failure
AfterSleep == "Connecting"

\* _run_spot: the sleep is over
Wake ==
  /\ pc = "Disconnected"
  /\ reconnect_delay' = IncreaseReconnectDelay(reconnect_delay)
  /\ pc' = AfterSleep
  /\ UNCHANGED <<store_vars, cur, disconnect_time, fails, futures, frame, books,
                 now, gaps, reconnects, orderbook_data, history_vars,
                 init_failed>>

\* the loop over config.symbols left after its first book
AfterSync_FirstOnly(i) == "Streaming"

\* where the loop over config.symbols goes after book i
AfterSync(i) == IF i < Len(Symbols) THEN "Synchronizing" ELSE "Streaming"

\* _connect_and_collect: initialize returns for the next symbol
SyncInitOk(levels, lastUpdateId) ==
  /\ pc = "Synchronizing"
  /\ Initialize(Symbols[cur], levels, lastUpdateId)
  /\ pc' = AfterSync(cur)
  /\ cur' = (IF cur < Len(Symbols) THEN cur + 1 ELSE 0)
  /\ init_failed' = init_failed \ {Upper(Symbols[cur])}
  /\ UNCHANGED <<store_vars, reconnect_delay, fails, futures, frame,
                 disconnect_time, now, gaps, reconnects,
                 orderbook_data, complete, call, probe>>

\* _connect_and_collect: initialize raises, and the connection is left
SyncInitFail ==
  /\ pc = "Synchronizing"
  /\ SpotFailure("error")
  /\ init_failed' = init_failed \cup {Upper(Symbols[cur])}
  /\ UNCHANGED <<store_vars, books, now, gaps, orderbook_data, history_vars>>

\* _connect_and_collect: initialize is answered with an error object
SyncInitError ==
  /\ pc = "Synchronizing"
  /\ InitializeFrom(Symbols[cur], ErrorResponse)
  /\ pc' = AfterSync(cur)
  /\ cur' = (IF cur < Len(Symbols) THEN cur + 1 ELSE 0)
  /\ init_failed' = init_failed \cup {Upper(Symbols[cur])}
  /\ UNCHANGED <<store_vars, reconnect_delay, fails, futures, frame,
                 disconnect_time, now, gaps, reconnects,
                 orderbook_data, complete, call, probe>>

\* the DepthDiffEvent _handle_message builds from a depth frame
DepthDiffEvent(tag, event_time, range, levels) ==
  [symbol |-> Upper(tag), event_time |-> event_time, recv_time |-> now,
   first_update_id |-> range[1], final_update_id |-> range[2],
   bids |-> levels[1], asks |-> levels[2]]

\* a re-initialization after every None of apply_diff
NeedsReinit_OnNone(ret, state) == ret = <<>>

\* whether _handle_message re-initializes after apply_diff returned
NeedsReinit(ret, state) == ret = <<>> /\ ~state.initialized

\* history: the id up to which every update is carried, once a diff of
\* ids range[1]..range[2] is applied to a book that carried every update
\* up to c; a diff that starts beyond c + 1 leaves a hole, and c stays
CoveredAfter(c, range) ==
  IF range[1] <= c + 1 /\ range[2] > c THEN range[2] ELSE c

\* _handle_message on a depth frame, up to the await of initialize
HandleDepth(i, event_time, range, levels) ==
  LET event == DepthDiffEvent(Symbols[i], event_time, range, levels)
      sym == event.symbol
      out == ApplyDiff(books[sym], gaps, sym, event, now)
  IN /\ pc = "Streaming"
     /\ Buffered < MaxBuf
     /\ books' = [books EXCEPT ![sym] = out.book]
     /\ gaps' = out.gaps
     /\ orderbook_data' =
          (IF out.ret # <<>>
           THEN [orderbook_data EXCEPT ![sym] = Append(@, out.ret[1])]
           ELSE orderbook_data)
     /\ pc' = (IF NeedsReinit(out.ret, out.book) THEN "Reinit" ELSE "Streaming")
     /\ cur' = (IF NeedsReinit(out.ret, out.book) THEN i ELSE 0)
     /\ covered' =
          (IF out.ret # <<>>
           THEN [covered EXCEPT ![sym] = CoveredAfter(@, range)]
           ELSE covered)
     /\ complete' =
          (IF out.ret # <<>>
           THEN [complete EXCEPT ![sym] =
                   Append(@, out.ret[1].last_update_id <= covered'[sym])]
           ELSE complete)
     /\ UNCHANGED <<store_vars, reconnect_delay, fails, futures, disconnect_time,
                    now, reconnects,
                    conn_synced, call, init_failed, probe>>

\* _handle_message: the awaited initialize returns
ReinitOk(levels, lastUpdateId) ==
  /\ pc = "Reinit"
  /\ Initialize(Upper(Symbols[cur]), levels, lastUpdateId)
  /\ pc' = "Streaming"
  /\ cur' = 0
  /\ init_failed' = init_failed \ {Upper(Symbols[cur])}
  /\ UNCHANGED <<store_vars, reconnect_delay, fails, futures, frame,
                 disconnect_time, now, gaps, reconnects,
                 orderbook_data, complete, call, probe>>

\* _handle_message: the awaited initialize is answered with an error object
ReinitError ==
  /\ pc = "Reinit"
  /\ InitializeFrom(Upper(Symbols[cur]), ErrorResponse)
  /\ pc' = "Streaming"
  /\ cur' = 0
  /\ init_failed' = init_failed \cup {Upper(Symbols[cur])}
  /\ UNCHANGED <<store_vars, reconnect_delay, fails, futures, frame,
                 disconnect_time, now, gaps, reconnects,
                 orderbook_data, complete, call, probe>>

\* _handle_message: the awaited initialize raises, which is logged
ReinitFail ==
  /\ pc = "Reinit"
  /\ pc' = "Streaming"
  /\ cur' = 0
  /\ init_failed' = init_failed \cup {Upper(Symbols[cur])}
  /\ UNCHANGED <<store_vars, reconnect_delay, fails, futures, frame,
                 disconnect_time, books, now, gaps,
                 reconnects, orderbook_data, history_vars>>

\* _run_spot: the receive loop raises
RecvFail ==
  /\ pc = "Streaming"
  /\ SpotFailure("error")
  /\ UNCHANGED <<store_vars, books, now, gaps, orderbook_data, history_vars, init_failed>>

\* _run_spot: _handle_message raises on a frame (json.loads on a frame
\* that is not JSON, a level that is not a number)
HandleFail ==
  /\ pc = "Streaming"
  /\ SpotFailure("error")
  /\ UNCHANGED <<store_vars, books, now, gaps, orderbook_data, history_vars, init_failed>>

\* _run_spot: the receive loop ends on a closed connection
RecvClose ==
  /\ pc = "Streaming"
  /\ pc' = "Connecting"
  /\ UNCHANGED <<store_vars, cur, reconnect_delay, fails, futures, frame,
                 disconnect_time, books, now, gaps,
                 reconnects, orderbook_data, history_vars, init_failed>>

\* -------------------------------------------------------- the others
\* DataBuffer.flush, for the order-book sequences
Drain ==
  /\ \E s \in UpperSymbols : orderbook_data[s] # <<>>
  /\ orderbook_data' = [s \in UpperSymbols |-> <<>>]
  /\ complete' = [s \in UpperSymbols |-> <<>>]
  /\ UNCHANGED <<store_vars, collector_vars, books, now, gaps, reconnects,
                 covered, conn_synced, call, init_failed, probe>>

\* IntegrityLogger.write_periodic_log: the reset of the period's logs
WritePeriodicLog ==
  /\ gaps # <<>> \/ reconnects # <<>>
  /\ gaps' = <<>>
  /\ reconnects' = <<>>
  /\ flush_stats' = <<>>
  /\ UNCHANGED <<buffer_vars, disk_vars, flusher_vars, syncer_vars, main,
                 collector_vars, books, now, orderbook_data, history_vars,
                 init_failed>>

\* d seconds of wall-clock time pass
Tick(d) ==
  /\ now + d <= MaxTime
  /\ now' = now + d

\* the spot loop reads the clock a grace period later
SpotTick ==
  /\ Tick(GracePeriod)
  /\ UNCHANGED <<store_vars, collector_vars, books, gaps, reconnects, orderbook_data,
                 history_vars, init_failed>>

Next ==
  \/ ConnectOk
  \/ ConnectFail
  \/ Wake
  \/ \E lv \in SnapshotLevels, i \in 1..Len(Symbols) :
       \E c \in Cursors(Symbols[i]) : cur = i /\ SyncInitOk(lv, c)
  \/ SyncInitFail
  \/ \E i \in 1..Len(Symbols), e \in EventTimes, lv \in DiffLevels :
       \E r \in SeqRanges(Symbols[i]) :
         HandleDepth(i, e, r, lv) /\ UNCHANGED frame
  \/ \E lv \in SnapshotLevels, i \in 1..Len(Symbols) :
       \E c \in Cursors(Symbols[i]) : cur = i /\ ReinitOk(lv, c)
  \/ ReinitFail
  \/ RecvFail
  \/ HandleFail
  \/ RecvClose
  \/ Drain
  \/ WritePeriodicLog
  \/ SpotTick

Spec == Init /\ [][Next]_vars

\* The same program against a REST endpoint that also answers a snapshot
\* request with an error object (rate limit, unknown symbol).
RestNext ==
  \/ Next
  \/ SyncInitError
  \/ ReinitError

SpecRest == Init /\ [][RestNext]_vars

\* ------------------------------------------- the manager on its own
\* The OrderBookManager of the first instrument under any sequence of
\* calls, as its unit tests drive it, with the clock read every second.

\* the price-level lists of these calls' depth events, as <<bids, asks>>
BookDiffLevels ==
  { << <<>>, << <<"2.0", "2.5">> >> >>,
    << << <<"1.0", "2.5">> >>, << <<"2.0", "0.00000000">> >> >>,
    << << <<"1.0", "0">> >>, <<>> >>,
    << << <<"1.0", "0.000">> >>, <<>> >>,
    << <<>>, << <<"3.0", "2.5">> >> >> }

\* the values Config.orderbook_top_levels is set to, up to its default
OrderbookTopLevels == 1..DefaultLevels

\* a call of initialize whose response arrives
CallInitialize(i, levels, lastUpdateId) ==
  /\ Initialize(Symbols[i], levels, lastUpdateId)
  /\ call' = NoCall("initialize")
  /\ init_failed' = init_failed \ {Upper(Symbols[i])}
  /\ UNCHANGED <<store_vars, collector_vars, now, gaps, reconnects, orderbook_data,
                 complete, probe>>

\* a call of validate_sequence
CallValidateSequence(i, first_update_id, final_update_id) ==
  LET sym == Upper(Symbols[i])
  IN /\ call' = [NoCall("validate_sequence") EXCEPT
                   !.sym = sym,
                   !.first_update_id = first_update_id,
                   !.final_update_id = final_update_id,
                   !.pre = books[sym],
                   !.ret = <<ValidateSequence(books[sym], first_update_id,
                                              final_update_id)>>]
     /\ UNCHANGED <<store_vars, collector_vars, books, now, gaps, reconnects,
                    orderbook_data, covered, conn_synced, complete, init_failed, probe>>

\* a call of apply_diff
CallApplyDiff(i, event_time, range, levels) ==
  LET event == DepthDiffEvent(Symbols[i], event_time, range, levels)
      sym == event.symbol
      out == ApplyDiff(books[sym], gaps, sym, event, now)
  IN /\ books' = [books EXCEPT ![sym] = out.book]
     /\ gaps' = out.gaps
     /\ covered' =
          (IF out.ret # <<>>
           THEN [covered EXCEPT ![sym] = CoveredAfter(@, range)]
           ELSE covered)
     /\ call' = [op |-> "apply_diff", sym |-> sym,
                 first_update_id |-> range[1], final_update_id |-> range[2],
                 bids |-> levels[1], asks |-> levels[2],
                 pre |-> books[sym], pregaps |-> gaps, t |-> now,
                 ret |-> out.ret]
     /\ UNCHANGED <<store_vars, collector_vars, now, reconnects, orderbook_data,
                    conn_synced, complete, init_failed, probe>>

\* a second passes between two calls
CallTick ==
  /\ Tick(1)
  /\ call' = NoCall("none")
  /\ UNCHANGED <<store_vars, collector_vars, books, gaps, reconnects, orderbook_data,
                 covered, conn_synced, complete, init_failed, probe>>

BookNext ==
  \/ \E lv \in SnapshotLevels, c \in Cursors(Symbols[1]) : CallInitialize(1, lv, c)
  \/ \E f \in FeedIds(Symbols[1]), l \in FeedIds(Symbols[1]) :
       CallValidateSequence(1, f, l)
  \/ \E e \in EventTimes, lv \in BookDiffLevels, r \in SeqRanges(Symbols[1]) :
       CallApplyDiff(1, e, r, lv)
  \/ CallTick

SpecBook == Init /\ [][BookNext]_vars

\* --------------------------------------------- functions on their own
\* _apply_updates and get_top_levels on arguments drawn from bounded
\* sets, as the property tests of tests/test_orderbook_manager.py draw them.

\* the longest list of level updates drawn for _apply_updates
MaxUpdates == 2
\* the largest levels argument drawn for get_top_levels
MaxLevels == 3

\* the dicts (each key once, in any insertion order) over keys and values
DictsOver(keys, values) ==
  UNION { { d \in [1..n -> keys \X values] :
              \A i, j \in 1..n : i # j => d[i][1] # d[j][1] } :
          n \in 0..Cardinality(keys) }

\* the lists of at most n level updates over prices and quantities
UpdatesOver(prices, qtys, n) == UNION { [1..k -> prices \X qtys] : k \in 0..n }

\* the quantity strings of the drawn updates: three spellings of zero
ProbeQtys == {"1.5", "0", "0.00000000", "0.000"}

FnInitUpdates ==
  probe \in { [op |-> "_apply_updates", book_side |-> d, updates |-> u,
               out |-> <<>>, done |-> FALSE] :
              d \in DictsOver({"1.0", "2.0"}, {"1.5", "2.5"}),
              u \in UpdatesOver({"1.0", "2.0"}, ProbeQtys, MaxUpdates) }

\* the price strings of the drawn books: "1.0" and "1.00" are one price
ProbePrices == {"1.0", "1.00", "2.0"}

FnInitTop ==
  probe \in { [op |-> "get_top_levels", bids |-> b, asks |-> a, levels |-> n,
               out |-> <<>>, done |-> FALSE] :
              b \in DictsOver(ProbePrices, {"1.5"}),
              a \in DictsOver(ProbePrices, {"1.5"}),
              n \in 1..MaxLevels }

FnInit == Constructed /\ cloud_remote = "" /\ (FnInitUpdates \/ FnInitTop)

\* the call of _apply_updates, which changes book_side in place
RunApplyUpdates ==
  /\ probe.op = "_apply_updates"
  /\ ~probe.done
  /\ probe' = [probe EXCEPT !.out = ApplyUpdates(probe.book_side, probe.updates),
                            !.done = TRUE]
  /\ UNCHANGED <<store_vars, collector_vars, books, now, gaps, reconnects, orderbook_data,
                 covered, conn_synced, complete, call, init_failed>>

\* the call of get_top_levels on a book of the drawn bids and asks
RunGetTopLevels ==
  /\ probe.op = "get_top_levels"
  /\ ~probe.done
  /\ probe' = [probe EXCEPT
                 !.out = GetTopLevels("BTCUSDT",
                                      [NewBook EXCEPT !.bids = probe.bids,
                                                      !.asks = probe.asks],
                                      probe.levels, 0, 0),
                 !.done = TRUE]
  /\ UNCHANGED <<store_vars, collector_vars, books, now, gaps, reconnects, orderbook_data,
                 covered, conn_synced, complete, call, init_failed>>

FnNext == RunApplyUpdates \/ RunGetTopLevels

SpecFn == FnInit /\ [][FnNext]_vars

\* ------------------------------------------------ the buffer on its own
\* The DataBuffer under any sequence of adds and drains, as the tests of
\* tests/test_buffer.py drive it. Every add and flush runs under the
\* buffer's lock without awaiting inside it, so each is one step. A
\* record is the number of the add that made it.

\* the most records added
MaxRecords == 3
\* the most drains made
MaxDrains == 2

\* everything the buffer does not touch
run_vars == <<collector_vars, books, now, gaps, reconnects, covered,
              conn_synced, complete, call, init_failed, probe>>
feed_vars == <<run_vars, main>>

\* everything but the containers of the buffer
other_vars == <<feed_vars, disk_vars, flusher_vars, flush_stats, syncer_vars>>

\* the kinds of record that are kept per symbol
DictKinds == <<"orderbook", "trade", "liquidation", "kline">>

\* a defaultdict(list) without keys; a symbol without key has no records
EmptyStore == [s \in UpperSymbols |-> <<>>]

\* the record that the next add appends
NextRecord == Len(added) + 1

\* store[symbol].append(record) as every one of the adds misplaces it:
\* under every symbol
AddTo_EverySymbol(store, symbol, record) ==
  [s \in DOMAIN store |-> Append(store[s], record)]

\* store[symbol].append(record)
AddTo(store, symbol, record) == [store EXCEPT ![symbol] = Append(@, record)]

\* history: the add of the next record to the list of (kind, symbol); a
\* list that the last result of flush shares grows in that result too
Added(kind, symbol) ==
  /\ Len(added) < MaxRecords
  /\ added' = Append(added, [kind |-> kind, symbol |-> symbol,
                             drain |-> Len(drains) + 1])
  /\ drains' = (IF <<kind, symbol>> \in shared
                THEN [drains EXCEPT ![Len(drains)][kind][symbol] =
                        Append(@, NextRecord)]
                ELSE drains)
  /\ UNCHANGED shared

\* DataBuffer.add_orderbook
AddOrderbook(symbol) ==
  /\ Added("orderbook", symbol)
  /\ orderbook_data' = AddTo(orderbook_data, symbol, NextRecord)
  /\ UNCHANGED <<trade_data, liquidation_data, kline_data, funding_data>>

\* DataBuffer.add_trade
AddTrade(symbol) ==
  /\ Added("trade", symbol)
  /\ trade_data' = AddTo(trade_data, symbol, NextRecord)
  /\ UNCHANGED <<orderbook_data, liquidation_data, kline_data, funding_data>>

\* DataBuffer.add_liquidation
AddLiquidation(symbol) ==
  /\ Added("liquidation", symbol)
  /\ liquidation_data' = AddTo(liquidation_data, symbol, NextRecord)
  /\ UNCHANGED <<orderbook_data, trade_data, kline_data, funding_data>>

\* DataBuffer.add_kline
AddKline(symbol) ==
  /\ Added("kline", symbol)
  /\ kline_data' = AddTo(kline_data, symbol, NextRecord)
  /\ UNCHANGED <<orderbook_data, trade_data, liquidation_data, funding_data>>

\* DataBuffer.add_funding_rate
AddFundingRate ==
  /\ Added("funding", "")
  /\ funding_data' = Append(funding_data, NextRecord)
  /\ UNCHANGED <<orderbook_data, trade_data, liquidation_data, kline_data>>

\* the result of DataBuffer.flush: a new dict per kind over the lists of
\* the live buffer, and a copy of the funding list
FlushResult ==
  [orderbook |-> orderbook_data, trade |-> trade_data,
   liquidation |-> liquidation_data, kline |-> kline_data,
   funding |-> funding_data]

\* the fields that flush rebinds, all but the trades
Rebound_NotTrade == {"orderbook", "liquidation", "kline", "funding"}

\* the fields that flush rebinds to a new, empty container
Rebound == {"orderbook", "trade", "liquidation", "kline", "funding"}

\* a field of the buffer after flush
AfterFlush(kind, store, empty) == IF kind \in Rebound THEN empty ELSE store

\* DataBuffer.flush
Flush ==
  /\ drains' = Append(drains, FlushResult)
  /\ orderbook_data' = AfterFlush("orderbook", orderbook_data, EmptyStore)
  /\ trade_data' = AfterFlush("trade", trade_data, EmptyStore)
  /\ liquidation_data' = AfterFlush("liquidation", liquidation_data, EmptyStore)
  /\ kline_data' = AfterFlush("kline", kline_data, EmptyStore)
  /\ funding_data' = AfterFlush("funding", funding_data, <<>>)
  /\ shared' = {g \in {DictKinds[k] : k \in 1..Len(DictKinds)} \X UpperSymbols :
                  g[1] \notin Rebound /\ FlushResult[g[1]][g[2]] # <<>>}
  /\ UNCHANGED added

\* a call of flush
CallFlush ==
  /\ Len(drains) < MaxDrains
  /\ Flush
  /\ UNCHANGED <<feed_vars, disk_vars, flusher_vars, flush_stats, syncer_vars>>

BufferNext ==
  \/ \E s \in UpperSymbols : AddOrderbook(s) /\ UNCHANGED other_vars
  \/ \E s \in UpperSymbols : AddTrade(s) /\ UNCHANGED other_vars
  \/ \E s \in UpperSymbols : AddLiquidation(s) /\ UNCHANGED other_vars
  \/ \E s \in UpperSymbols : AddKline(s) /\ UNCHANGED other_vars
  \/ AddFundingRate /\ UNCHANGED other_vars
  \/ CallFlush

SpecBuffer == Init /\ [][BufferNext]_vars

\* ----------------------------------------------------- the flusher
\* Flusher.flush_now on the buffer and the data directory. Its frame
\* keeps, as history, the files, the ledger and the queue it started on. After its
\* await of DataBuffer.flush the function never awaits again, so no add
\* and no other flush runs before it returns; the steps below are the
\* points at which a file operation can fail and the process can be
\* killed.

\* the latest reading of the clock while the flusher runs
MaxFlushTime == 61
\* the most records added while the flusher runs
MaxFlushed == 2
\* the most kills of the process
MaxCrashes == 1
\* the seconds of a minute, which strftime('%Y%m%d_%H%M') tells apart
MinuteSeconds == 60

\* the file system fs with file path holding content
WithFile(fs, path, content) ==
  [q \in DOMAIN fs \cup {path} |-> IF q = path THEN content ELSE fs[q]]

\* the file system fs without the file path
WithoutFile(fs, path) == [q \in DOMAIN fs \ {path} |-> fs[q]]

\* what a file holds: records, all of them written or not, and its mtime
Content(records, whole, mtime) ==
  [records |-> records, complete |-> whole, mtime |-> mtime]

\* the n-th name with the suffix of the temporary files
TmpPath(n) == <<"tmp", ".parquet.tmp", n>>

\* the name mkstemp(suffix=".parquet.tmp") picks: one that is not in use
Mkstemp(fs) ==
  TmpPath(CHOOSE n \in 1..(Cardinality(DOMAIN fs) + 1) :
            /\ TmpPath(n) \notin DOMAIN fs
            /\ \A m \in 1..(n - 1) : TmpPath(m) \in DOMAIN fs)

\* whether glob("*.parquet") finds the path
IsParquet(path) == path[2] # ".parquet.tmp"

\* timestamp.strftime('%Y%m%d_%H%M')
Strftime(timestamp) == timestamp \div MinuteSeconds

\* Flusher._generate_filename, and the name of the funding file
GenerateFilename(symbol, datatype, timestamp) ==
  IF datatype = "funding"
  THEN <<"funding", "rate", Strftime(timestamp)>>
  ELSE <<Upper(symbol), datatype, Strftime(timestamp)>>

\* the keys of a dict of lists in the order of their insertion, which is
\* the order of the first records of the lists
KeysInOrder(store) ==
  LET keys == {k \in DOMAIN store : store[k] # <<>>}
  IN CHOOSE seq \in [1..Cardinality(keys) -> keys] :
       \A i, j \in 1..Cardinality(keys) : i < j => store[seq[i]][1] < store[seq[j]][1]

\* flush_now skipping no group
SkipGroup_Never(records) == FALSE

\* "if not records: continue", and "if funding:" for the funding list
SkipGroup(records) == records = <<>>

RECURSIVE Concat(_)
\* the concatenation of a list of lists
Concat(lists) ==
  IF lists = <<>> THEN <<>> ELSE Head(lists) \o Concat(Tail(lists))

\* the groups of drained data that flush_now writes, in the order of
\* its loops: per kind the symbols of the dict, then the funding list
GroupsToWrite(data) ==
  Concat([k \in 1..Len(DictKinds) |->
            LET kind == DictKinds[k]
                keys == KeysInOrder(data[kind])
            IN [i \in 1..Len(keys) |-> <<kind, keys[i]>>]])
    \o (IF SkipGroup(data.funding) THEN <<>> ELSE << <<"funding", "">> >>)

\* a group of the drained data cut down to its first record
GroupRecords_First(data, g) ==
  LET records == IF g[1] = "funding" THEN data.funding ELSE data[g[1]][g[2]]
  IN IF records = <<>> THEN <<>> ELSE <<Head(records)>>

\* the records of a group of the drained data
GroupRecords(data, g) == IF g[1] = "funding" THEN data.funding ELSE data[g[1]][g[2]]

\* hashlib.sha256 over the bytes of a file
Sha256(content) == <<"sha256", content.records, content.complete>>

\* the frame of flush_now between two calls
FlusherIdle == [pc |-> "idle"]

\* the group that flush_now is writing, and the path of its file
FlGroup == fl.todo[fl.i]
FlPath == GenerateFilename(FlGroup[2], FlGroup[1], fl.now)

\* flush_now: the buffer is drained and the clock read; it starts while
\* the syncer sleeps or awaits an upload, the points where that one yields
FlushNowEnter ==
  /\ fl.pc = "idle"
  /\ sy.pc \in {"sleep", "upload"}
  /\ Len(drains) < MaxDrains
  /\ Flush
  /\ fl' = [pc |-> "loop", data |-> FlushResult, now |-> now,
            todo |-> GroupsToWrite(FlushResult), i |-> 0,
            created_files |-> <<>>, tmp_path |-> <<>>,
            files0 |-> files, ledger0 |-> ledger, queue0 |-> pending_queue]
  /\ UNCHANGED <<disk_vars, flush_stats, pending_queue, crashes, run_vars, syncer_vars>>

\* Flusher.run or force_flush_monitor calls flush_now
FlushNowBegin ==
  /\ FlushNowEnter
  /\ UNCHANGED main

\* _save_parquet of the next group: mkstemp makes an empty file
SaveMkstemp ==
  /\ fl.pc = "loop"
  /\ fl.i < Len(fl.todo)
  /\ files' = WithFile(files, Mkstemp(files), Content(<<>>, FALSE, now))
  /\ fl' = [fl EXCEPT !.pc = "to_parquet", !.i = @ + 1,
                      !.tmp_path = Mkstemp(files)]
  /\ UNCHANGED <<buffer_vars, orderbook_data, ledger, flush_stats,
                 pending_queue, crashes, feed_vars, syncer_vars>>

\* to_parquet writing to the path of the published file
ToParquetPath_Published(tmp_path, filepath) == filepath

\* the path that to_parquet is given to write to
ToParquetPath(tmp_path, filepath) == tmp_path

\* _save_parquet: to_parquet has written a part of the file
SaveToParquetPart ==
  /\ fl.pc = "to_parquet"
  /\ files' = WithFile(files, ToParquetPath(fl.tmp_path, FlPath),
                       Content(GroupRecords(fl.data, FlGroup), FALSE, now))
  /\ fl' = [fl EXCEPT !.pc = "writing"]
  /\ UNCHANGED <<buffer_vars, orderbook_data, ledger, flush_stats,
                 pending_queue, crashes, feed_vars, syncer_vars>>

\* _save_parquet: to_parquet has written all of the file and returns
SaveToParquetDone ==
  /\ fl.pc = "writing"
  /\ files' = WithFile(files, ToParquetPath(fl.tmp_path, FlPath),
                       Content(GroupRecords(fl.data, FlGroup), TRUE, now))
  /\ fl' = [fl EXCEPT !.pc = "replace"]
  /\ UNCHANGED <<buffer_vars, orderbook_data, ledger, flush_stats,
                 pending_queue, crashes, feed_vars, syncer_vars>>

\* _save_parquet: to_parquet or os.replace raises; the handler unlinks
\* the temporary file and the exception leaves flush_now
SaveRaise ==
  /\ fl.pc \in {"to_parquet", "writing", "replace"}
  /\ files' = WithoutFile(files, fl.tmp_path)
  /\ fl' = [fl EXCEPT !.pc = "raised", !.tmp_path = <<>>]
  /\ UNCHANGED <<buffer_vars, orderbook_data, ledger, flush_stats,
                 pending_queue, crashes, feed_vars, syncer_vars>>

\* _save_parquet: os.replace moves the temporary file to the path
SaveReplace ==
  /\ fl.pc = "replace"
  /\ files' = WithFile(WithoutFile(files, fl.tmp_path), FlPath, files[fl.tmp_path])
  /\ fl' = [fl EXCEPT !.pc = "saved", !.tmp_path = <<>>]
  /\ UNCHANGED <<buffer_vars, orderbook_data, ledger, flush_stats,
                 pending_queue, crashes, feed_vars, syncer_vars>>

\* record_checksum writing the new entry without reading the ledger
RecordChecksum_Alone(entries, filepath, sha256, record_count) ==
  <<[filename |-> filepath, sha256 |-> sha256, record_count |-> record_count]>>

\* Flusher.record_checksum: checksums.json is read, the entry appended and
\* the list written back, without an await in between; the entry is kept
\* without file_size and created_at
RecordChecksum(entries, filepath, sha256, record_count) ==
  Append(entries,
         [filename |-> filepath, sha256 |-> sha256, record_count |-> record_count])

\* a hook that appends the path twice
EnqueueFile_Twice(queue, filepath) == Append(Append(queue, filepath), filepath)

\* Syncer.enqueue_file, the on_file_created hook that main installs
EnqueueFile(queue, filepath) == Append(queue, filepath)

\* flush_now after _save_parquet: the checksum of the file goes to the
\* ledger, the statistics to the integrity logger, the path to the syncer
FlushNowRecord ==
  /\ fl.pc = "saved"
  /\ ledger' = RecordChecksum(ledger, FlPath, Sha256(files[FlPath]),
                              Len(GroupRecords(fl.data, FlGroup)))
  /\ flush_stats' =
       (IF FlGroup[1] = "funding" THEN flush_stats
        ELSE Append(flush_stats,
                    [symbol |-> FlGroup[2], datatype |-> FlGroup[1],
                     record_count |-> Len(GroupRecords(fl.data, FlGroup))]))
  /\ pending_queue' = EnqueueFile(pending_queue, FlPath)
  /\ fl' = [fl EXCEPT !.pc = "loop", !.created_files = Append(@, FlPath)]
  /\ UNCHANGED <<buffer_vars, orderbook_data, files, crashes, feed_vars, syncer_vars>>

\* flush_now returns created_files
FlushNowReturn ==
  /\ main.pc # "flush_now"
  /\ ~main.forced
  /\ fl.pc = "loop"
  /\ fl.i = Len(fl.todo)
  /\ fl' = FlusherIdle
  /\ UNCHANGED <<buffer_vars, orderbook_data, disk_vars, flush_stats,
                 pending_queue, crashes, feed_vars, syncer_vars>>

\* Flusher.run logs the exception that left flush_now
FlushNowRaised ==
  /\ main.pc # "flush_now"
  /\ ~main.forced
  /\ fl.pc = "raised"
  /\ fl' = FlusherIdle
  /\ UNCHANGED <<buffer_vars, orderbook_data, disk_vars, flush_stats,
                 pending_queue, crashes, feed_vars, syncer_vars>>

\* the process is killed while flush_now runs, and started again: memory
\* is lost, files stay
Crash ==
  /\ fl.pc # "idle"
  /\ crashes < MaxCrashes
  /\ crashes' = crashes + 1
  /\ orderbook_data' = EmptyStore
  /\ trade_data' = EmptyStore
  /\ liquidation_data' = EmptyStore
  /\ kline_data' = EmptyStore
  /\ funding_data' = <<>>
  /\ shared' = {}
  /\ flush_stats' = <<>>
  /\ pending_queue' = <<>>
  /\ fl' = FlusherIdle
  /\ synced_files' = {}
  /\ sync_events' = <<>>
  /\ sy' = SyncerSleeping
  /\ UNCHANGED <<added, drains, disk_vars, feed_vars, cloud_remote>>

\* a minute passes while nothing runs
FlusherTick ==
  /\ fl.pc = "idle"
  /\ now + MinuteSeconds <= MaxFlushTime
  /\ now' = now + MinuteSeconds
  /\ UNCHANGED <<store_vars, orderbook_data, collector_vars, books, gaps,
                 reconnects, covered, conn_synced, complete, call,
                 init_failed, probe>>

\* an add, which runs only while flush_now does not: of an order book
\* of either symbol, of a trade of the first, or of a funding rate
FlusherAdd ==
  /\ fl.pc = "idle"
  /\ Len(added) < MaxFlushed
  /\ \/ \E s \in UpperSymbols : AddOrderbook(s)
     \/ AddTrade(Upper(Symbols[1]))
     \/ AddFundingRate
  /\ UNCHANGED <<disk_vars, flusher_vars, flush_stats, feed_vars, syncer_vars>>

FlusherNext ==
  \/ FlusherAdd
  \/ FlushNowBegin
  \/ SaveMkstemp
  \/ SaveToParquetPart
  \/ SaveToParquetDone
  \/ SaveRaise
  \/ SaveReplace
  \/ FlushNowRecord
  \/ FlushNowReturn
  \/ FlushNowRaised
  \/ Crash
  \/ FlusherTick

SpecFlusher == Init /\ [][FlusherNext]_vars

\* ------------------------------------------------------ the syncer
\* Syncer.run beside the flusher. flush_now never yields once it has
\* drained the buffer, so the syncer takes its steps only between two
\* calls of it; the syncer itself yields where it awaits: in the upload
\* of sync_file and in its sleep.

\* the length of IntegrityLogger._sync_events from which on no upload
\* starts
MaxSyncEvents == 3
\* the most readings of the clock after the first one
MaxSyncTicks == 2
\* the longest list handed to get_files_to_delete
MaxListed == 2
\* Config.cleanup_days
CleanupDays == 7
\* the seconds of a day
DaySeconds == 86400

\* the settings of Config.cloud_remote: none, which is the default, or one
CloudRemotes == {"", "gdrive"}

\* the state after main() has constructed the components on either
\* configuration
SyncerInit == Constructed /\ probe = NoProbe /\ cloud_remote \in CloudRemotes

\* the step of the clock: half of the retention period
HalfRetention == (CleanupDays * DaySeconds) \div 2

\* IntegrityLogger.record_sync; the entry is kept without its timestamp
RecordSync(events, filepath, status) ==
  Append(events, [filepath |-> filepath, status |-> status])

\* sync_file leaving a failed file out of the queue
Requeue_Dropped(queue, filepath) == queue

\* self._pending_queue.append(filepath) of a failed upload
Requeue(queue, filepath) == Append(queue, filepath)

\* sync_file taking any setting for a remote
RemoteConfigured_Always(remote) == TRUE

\* sync_file: "if not remote" does not hold
RemoteConfigured(remote) == remote # ""

\* Syncer.run taking only the first file of the queue into its batch
RetryQueue_First(queue) == IF queue = <<>> THEN <<>> ELSE <<Head(queue)>>

\* retry_queue = list(self._pending_queue)
RetryQueue(queue) == queue

\* the file that the loop of Syncer.run stands on
SyPath == sy.retry_queue[sy.i]

\* an add of an order book of the first symbol, which runs only while
\* flush_now does not and the syncer sleeps or awaits an upload
SyncerAdd ==
  /\ fl.pc = "idle"
  /\ sy.pc \in {"sleep", "upload"}
  /\ Len(added) < MaxFlushed
  /\ probe = NoProbe
  /\ AddOrderbook(Upper(Symbols[1]))
  /\ UNCHANGED <<disk_vars, flusher_vars, flush_stats, feed_vars, syncer_vars>>

\* Syncer.run: a cycle starts on a copy of the queue, which it clears
RunCycle ==
  /\ fl.pc = "idle"
  /\ sy.pc = "sleep"
  /\ sy' = [sy EXCEPT !.pc = "loop", !.retry_queue = RetryQueue(pending_queue),
                      !.i = 0,
                      !.unlink_failed = {}]
  /\ pending_queue' = <<>>
  /\ UNCHANGED <<buffer_vars, orderbook_data, disk_vars, flush_stats, fl,
                 crashes, feed_vars, cloud_remote, synced_files, sync_events>>

\* Syncer.run: the next file of the copy no longer exists
RunSkipMissing ==
  /\ fl.pc = "idle"
  /\ sy.pc = "loop"
  /\ sy.i < Len(sy.retry_queue)
  /\ sy.retry_queue[sy.i + 1] \notin DOMAIN files
  /\ sy' = [sy EXCEPT !.i = @ + 1]
  /\ UNCHANGED <<buffer_vars, orderbook_data, disk_vars, flusher_vars,
                 flush_stats, feed_vars, cloud_remote, synced_files,
                 sync_events>>

\* sync_file without a remote: a warning, and False
SyncFileNoRemote ==
  /\ fl.pc = "idle"
  /\ sy.pc = "loop"
  /\ sy.i < Len(sy.retry_queue)
  /\ sy.retry_queue[sy.i + 1] \in DOMAIN files
  /\ ~RemoteConfigured(cloud_remote)
  /\ sy' = [sy EXCEPT !.i = @ + 1, !.returncode = "none"]
  /\ UNCHANGED <<buffer_vars, orderbook_data, disk_vars, flusher_vars,
                 flush_stats, feed_vars, cloud_remote, synced_files,
                 sync_events>>

\* sync_file with a remote: the upload starts and sync_file awaits it
SyncFileBegin ==
  /\ fl.pc = "idle"
  /\ sy.pc = "loop"
  /\ sy.i < Len(sy.retry_queue)
  /\ sy.retry_queue[sy.i + 1] \in DOMAIN files
  /\ RemoteConfigured(cloud_remote)
  /\ Len(sync_events) < MaxSyncEvents
  /\ sy' = [sy EXCEPT !.pc = "upload", !.i = @ + 1, !.returncode = "none",
                      !.sent = Sha256(files[sy.retry_queue[sy.i + 1]])]
  /\ UNCHANGED <<buffer_vars, orderbook_data, disk_vars, flusher_vars,
                 flush_stats, feed_vars, cloud_remote, synced_files,
                 sync_events>>

\* sync_file: the upload returned 0; what it has copied are the bytes
\* the file held when the upload started or those it holds now
UploadOk ==
  /\ fl.pc = "idle"
  /\ sy.pc = "upload"
  /\ synced_files' = synced_files \cup {SyPath}
  /\ sync_events' = RecordSync(sync_events, SyPath, "success")
  /\ \E bytes \in {sy.sent, Sha256(files[SyPath])} :
       sy' = [sy EXCEPT !.pc = "loop", !.returncode = "0", !.sent = <<>>,
                        !.uploaded = @ \cup {<<SyPath, bytes>>}]
  /\ UNCHANGED <<buffer_vars, orderbook_data, disk_vars, flusher_vars,
                 flush_stats, feed_vars, cloud_remote>>

\* sync_file: the upload returned another code
UploadFailed ==
  /\ fl.pc = "idle"
  /\ sy.pc = "upload"
  /\ pending_queue' = Requeue(pending_queue, SyPath)
  /\ sync_events' = RecordSync(sync_events, SyPath, "failed")
  /\ sy' = [sy EXCEPT !.pc = "loop", !.returncode = "1", !.sent = <<>>]
  /\ UNCHANGED <<buffer_vars, orderbook_data, disk_vars, flush_stats, fl,
                 crashes, feed_vars, cloud_remote, synced_files>>

\* sync_file: the upload returned another code and stderr.decode() raises
\* in the branch that has put the file back, so that the handler of the
\* exception puts it back and records it once more
UploadFailedUndecodable ==
  /\ fl.pc = "idle"
  /\ sy.pc = "upload"
  /\ pending_queue' = Requeue(Requeue(pending_queue, SyPath), SyPath)
  /\ sync_events' = RecordSync(RecordSync(sync_events, SyPath, "failed"),
                               SyPath, "failed")
  /\ sy' = [sy EXCEPT !.pc = "loop", !.returncode = "1", !.sent = <<>>]
  /\ UNCHANGED <<buffer_vars, orderbook_data, disk_vars, flush_stats, fl,
                 crashes, feed_vars, cloud_remote, synced_files>>

\* sync_file: starting the upload or awaiting it raises
UploadRaises ==
  /\ fl.pc = "idle"
  /\ sy.pc = "upload"
  /\ pending_queue' = Requeue(pending_queue, SyPath)
  /\ sync_events' = RecordSync(sync_events, SyPath, "failed")
  /\ sy' = [sy EXCEPT !.pc = "loop", !.returncode = "exception", !.sent = <<>>]
  /\ UNCHANGED <<buffer_vars, orderbook_data, disk_vars, flush_stats, fl,
                 crashes, feed_vars, cloud_remote, synced_files>>

\* cleanup_old_files: file_age >= cutoff_seconds
IsOldEnough(file_age) == file_age >= CleanupDays * DaySeconds

\* cleanup_old_files taking every file for a synced one
IsSynced_Always(filepath, synced) == TRUE

\* cleanup_old_files: str(filepath) in self._synced_files
IsSynced(filepath, synced) == filepath \in synced

\* the files that cleanup_old_files unlinks
ToUnlink(fs, synced, t) ==
  {p \in DOMAIN fs : /\ IsParquet(p)
                     /\ IsOldEnough(t - fs[p].mtime)
                     /\ IsSynced(p, synced)}

\* cleanup_old_files, which never awaits: every old and synced file of
\* the directory is unlinked, and unlink may raise OSError, which is logged
CleanupOldFiles ==
  /\ fl.pc = "idle"
  /\ sy.pc = "loop"
  /\ sy.i = Len(sy.retry_queue)
  /\ \E failed \in SUBSET ToUnlink(files, synced_files, now) :
       LET gone == ToUnlink(files, synced_files, now) \ failed
       IN /\ files' = [p \in DOMAIN files \ gone |-> files[p]]
          /\ sy' = [sy EXCEPT !.pc = "sleep", !.returncode = "none",
                              !.unlink_failed = failed]
  /\ UNCHANGED <<buffer_vars, orderbook_data, ledger, flusher_vars,
                 flush_stats, feed_vars, cloud_remote, synced_files,
                 sync_events>>

RECURSIVE GetFilesToDelete(_)
\* Syncer.get_files_to_delete
GetFilesToDelete(listed) ==
  IF listed = <<>> THEN <<>>
  ELSE (IF Head(listed).age_days >= CleanupDays /\ Head(listed).synced
        THEN <<Head(listed).path>> ELSE <<>>)
       \o GetFilesToDelete(Tail(listed))

\* the ages of the listed files, in days: under the retention and on it
ListedAges == {CleanupDays - 1, CleanupDays}

\* the lists handed to get_files_to_delete: the n-th entry has the path n
Listings ==
  UNION { [1..n -> [age_days : ListedAges, synced : BOOLEAN]] : n \in 0..MaxListed }

\* a call of get_files_to_delete on a syncer that is handed no file
CallGetFilesToDelete ==
  /\ sy = SyncerSleeping
  /\ added = <<>>
  /\ \E l \in Listings :
       LET listed == [i \in 1..Len(l) |->
                        [path |-> i, age_days |-> l[i].age_days,
                         synced |-> l[i].synced]]
       IN probe' = [op |-> "get_files_to_delete", files |-> listed,
                    out |-> GetFilesToDelete(listed)]
  /\ UNCHANGED <<store_vars, orderbook_data, collector_vars, books, now,
                 gaps, reconnects, covered, conn_synced, complete, call,
                 init_failed>>

\* half of the retention period passes while the syncer sleeps or
\* awaits an upload, and flush_now does not run
SyncerTick ==
  /\ fl.pc = "idle"
  /\ sy.pc \in {"sleep", "upload"}
  /\ now + HalfRetention <= 1 + MaxSyncTicks * HalfRetention
  /\ now' = now + HalfRetention
  /\ UNCHANGED <<store_vars, orderbook_data, collector_vars, books, gaps,
                 reconnects, covered, conn_synced, complete, call,
                 init_failed, probe>>

SyncerNext ==
  \/ SyncerAdd
  \/ FlushNowBegin
  \/ SaveMkstemp
  \/ SaveToParquetPart
  \/ SaveToParquetDone
  \/ SaveReplace
  \/ FlushNowRecord
  \/ FlushNowReturn
  \/ RunCycle
  \/ RunSkipMissing
  \/ SyncFileNoRemote
  \/ SyncFileBegin
  \/ UploadOk
  \/ UploadFailed
  \/ UploadFailedUndecodable
  \/ UploadRaises
  \/ CleanupOldFiles
  \/ CallGetFilesToDelete
  \/ SyncerTick

SpecSyncer == SyncerInit /\ [][SyncerNext]_vars

\* ------------------------------------------- the loops and the routing
\* Both websocket loops of Collector.run, and every frame that they hand
\* to _handle_message. The two loops are tasks of one event loop: a frame
\* is handled without another frame being handled in between, up to the
\* await of initialize on the message path, where the futures loop may
\* run. Each add takes the buffer's lock, which flush never holds across
\* an await, so a frame that is not a depth frame is one step.

\* Frames that are not depth frames are handled while fewer records have
\* been added.
MaxRouted == 1

\* a stream tag is the sequence of its parts between the @ signs
\* build_ws_url: the streams of the spot connection for symbol s
SpotStreams(s) == {<<s, "depth", "100ms">>, <<s, "aggTrade">>, <<s, "kline_1m">>}

\* build_futures_ws_url: the stream of the futures connection for symbol s
FuturesStreams(s) == {<<s, "forceOrder">>}

\* tags that _handle_message has no route for: a frame without the key
\* "stream", and a stream that was not asked for
OtherStreams(s) == {<<>>, <<s, "bookTicker">>}

\* word in part, for the parts and words above
PartHas(part, word) == part = word \/ (part = "kline_1m" /\ word = "kline")

\* word in stream
StreamHas(stream, word) == \E k \in 1..Len(stream) : PartHas(stream[k], word)

\* _handle_message: the branch of the if/elif chain that a tag takes
Route(stream) ==
  IF StreamHas(stream, "depth") THEN "depth"
  ELSE IF StreamHas(stream, "aggTrade") THEN "aggTrade"
  ELSE IF StreamHas(stream, "forceOrder") THEN "forceOrder"
  ELSE IF StreamHas(stream, "kline") THEN "kline"
  ELSE "none"

\* a candle is kept whether closed or not
KlineFinal_Always(closed) == TRUE

\* _handle_message: k.get("x", False)
KlineFinal(closed) == closed

\* history: the frame that is handled next; turn tells a frame from the
\* one before it
Handled(stream, closed, none) ==
  [turn |-> 1 - frame.turn, stream |-> stream, closed |-> closed,
   none |-> none]

\* _handle_message on a depth frame of the spot connection
RouteDepth(i, event_time, range, levels) ==
  LET event == DepthDiffEvent(Symbols[i], event_time, range, levels)
      out == ApplyDiff(books[event.symbol], gaps, event.symbol, event, now)
  IN /\ Route(<<Symbols[i], "depth", "100ms">>) = "depth"
     /\ HandleDepth(i, event_time, range, levels)
     /\ frame' = Handled(<<Symbols[i], "depth", "100ms">>, FALSE, out.ret = <<>>)

\* _handle_message on a frame that is not a depth frame; symbol is the
\* field "s" of its payload
HandleMessage(i, stream, symbol, closed) ==
  /\ Len(added) < MaxRouted
  /\ \/ pc = "Streaming" /\ stream \in SpotStreams(Symbols[i]) \cup OtherStreams(Symbols[i])
     \/ futures.pc = "Streaming" /\ stream \in FuturesStreams(Symbols[i])
  /\ Route(stream) # "depth"
  /\ frame' = Handled(stream, Route(stream) = "kline" /\ closed, FALSE)
  /\ CASE Route(stream) = "aggTrade" -> AddTrade(symbol)
       [] Route(stream) = "forceOrder" -> AddLiquidation(symbol)
       [] Route(stream) = "kline" /\ KlineFinal(closed) -> AddKline(symbol)
       [] OTHER -> UNCHANGED <<buffer_vars, orderbook_data>>
  /\ UNCHANGED <<loop_vars, books, now, gaps, reconnects, covered, conn_synced,
                 complete, call, init_failed, probe, disk_vars, flusher_vars,
                 flush_stats, syncer_vars, main>>

\* everything but the frame of the futures loop
spot_vars == <<pc, cur, reconnect_delay, disconnect_time, fails, frame, books,
               now, gaps, reconnects, covered, conn_synced, complete, call,
               init_failed, probe, orderbook_data, store_vars>>

\* _run_futures: websockets.connect succeeds
FuturesConnectOk ==
  /\ futures.pc = "Connecting"
  /\ futures' = [pc |-> "Streaming", delay |-> BaseDelay]
  /\ UNCHANGED spot_vars

\* _run_futures: connect, the receive loop or _handle_message raises
FuturesFail ==
  /\ futures.pc \in {"Connecting", "Streaming"}
  /\ futures' = [futures EXCEPT !.pc = "Disconnected"]
  /\ UNCHANGED spot_vars

\* _run_futures: the sleep is over
FuturesWake ==
  /\ futures.pc = "Disconnected"
  /\ futures' = [pc |-> "Connecting",
                 delay |-> IF futures.delay * 2 < MaxDelay
                           THEN futures.delay * 2 ELSE MaxDelay]
  /\ UNCHANGED spot_vars

\* _run_futures: the receive loop ends on a closed connection
FuturesClose ==
  /\ futures.pc = "Streaming"
  /\ futures' = [futures EXCEPT !.pc = "Connecting"]
  /\ UNCHANGED spot_vars

\* the instruments whose depth frames are drawn here: the one with the
\* short feed, every outcome of apply_diff being drawn under Spec
RoutedBooks == {Len(Symbols)}

RouteNext ==
  \/ ConnectOk
  \/ \E lv \in SnapshotLevels, i \in 1..Len(Symbols) :
       \E c \in Cursors(Symbols[i]) : cur = i /\ SyncInitOk(lv, c)
  \/ \E i \in RoutedBooks, e \in EventTimes, lv \in DiffLevels :
       \E r \in SeqRanges(Symbols[i]) : RouteDepth(i, e, r, lv)
  \/ \E lv \in SnapshotLevels, i \in 1..Len(Symbols) :
       \E c \in Cursors(Symbols[i]) : cur = i /\ ReinitOk(lv, c)
  \/ ReinitFail
  \/ \E i \in 1..Len(Symbols), closed \in BOOLEAN :
       \E stream \in SpotStreams(Symbols[i]) \cup FuturesStreams(Symbols[i])
                       \cup OtherStreams(Symbols[i]) :
         HandleMessage(i, stream, Upper(Symbols[i]), closed)
  \/ FuturesConnectOk
  \/ SpotTick

SpecRoute == Init /\ [][RouteNext]_vars

\* The two loops under failures, with a sleep that ends.
LiveNext ==
  \/ ConnectOk
  \/ ConnectFail
  \/ Wake
  \/ \E lv \in SnapshotLevels, i \in 1..Len(Symbols) :
       \E c \in Cursors(Symbols[i]) : cur = i /\ SyncInitOk(lv, c)
  \/ SyncInitFail
  \/ RecvFail
  \/ HandleFail
  \/ RecvClose
  \/ WritePeriodicLog
  \/ FuturesConnectOk
  \/ FuturesFail
  \/ FuturesWake
  \/ FuturesClose

\* asyncio.sleep returns: a loop that sleeps is woken
SpecLive ==
  /\ Init
  /\ [][LiveNext]_vars
  /\ WF_vars(Wake)
  /\ WF_vars(FuturesWake)

\* ------------------------------------------------------- the shutdown
\* main beside the tasks it gathers: it awaits its shutdown event or the
\* end of the gather, calls flush_now once and returns. The signal
\* handler and the tasks run only where the running coroutine yields, and
\* flush_now does not yield once it has drained the buffer, so that the
\* last flush runs without another step of the program in between.

\* the tasks of main without a handler around the body of their loop:
\* an exception of their body ends them
MortalTasks == {"syncer", "periodic_log", "daily_summary",
                "force_flush_monitor"}

\* a gather that is done with the first task that ends
GatherDone_First(alive) == alive # AllTasks

\* asyncio.gather(*tasks, return_exceptions=True) is done
GatherDone(alive) == alive = {}

\* asyncio.wait(..., return_when=FIRST_COMPLETED) returns
WaitReturns == main.event \/ GatherDone(main.alive)

\* SIGINT or SIGTERM: _signal_handler sets the event
Signal ==
  /\ main.pc = "waiting"
  /\ fl.pc = "idle"
  /\ ~main.event
  /\ main' = [main EXCEPT !.event = TRUE]
  /\ UNCHANGED <<run_vars, buffer_vars, orderbook_data, disk_vars, flusher_vars,
                 flush_stats, syncer_vars>>

\* the body of a task's loop raises, and the task ends
TaskDies(task) ==
  /\ main.pc = "waiting"
  /\ fl.pc = "idle"
  /\ task \in main.alive
  /\ main' = [main EXCEPT !.alive = @ \ {task}]
  /\ UNCHANGED <<run_vars, buffer_vars, orderbook_data, disk_vars, flusher_vars,
                 flush_stats, syncer_vars>>

\* main: the wait returns and flush_now is called
FinalFlushBegin ==
  /\ main.pc = "waiting"
  /\ WaitReturns
  /\ FlushNowEnter
  /\ main' = [main EXCEPT !.pc = "flush_now", !.attempts = @ + 1]

\* main: flush_now returns, and main does
FinalFlushReturn ==
  /\ main.pc = "flush_now"
  /\ fl.pc = "loop"
  /\ fl.i = Len(fl.todo)
  /\ fl' = FlusherIdle
  /\ main' = [main EXCEPT !.pc = "exited"]
  /\ UNCHANGED <<buffer_vars, orderbook_data, disk_vars, flush_stats,
                 pending_queue, crashes, run_vars, syncer_vars>>

\* main: flush_now raises; the exception is logged, and main returns
FinalFlushRaised ==
  /\ main.pc = "flush_now"
  /\ fl.pc = "raised"
  /\ fl' = FlusherIdle
  /\ main' = [main EXCEPT !.pc = "exited", !.logged = TRUE]
  /\ UNCHANGED <<buffer_vars, orderbook_data, disk_vars, flush_stats,
                 pending_queue, crashes, run_vars, syncer_vars>>

ShutdownNext ==
  \/ main.pc = "waiting" /\ FlusherAdd
  \/ main.pc = "waiting" /\ FlushNowBegin
  \/ SaveMkstemp
  \/ SaveToParquetPart
  \/ SaveToParquetDone
  \/ SaveRaise
  \/ SaveReplace
  \/ FlushNowRecord
  \/ FlushNowReturn
  \/ FlushNowRaised
  \/ Signal
  \/ \E task \in MortalTasks : TaskDies(task)
  \/ FinalFlushBegin
  \/ FinalFlushReturn
  \/ FinalFlushRaised

SpecShutdown == Init /\ [][ShutdownNext]_vars

\* ------------------------------------------- the two flush triggers
\* Flusher.run and force_flush_monitor of main beside each other. Both
\* await flush_now, which does not yield once it has drained the buffer,
\* so a call of one ends before the other's next tick. main.forced tells
\* that the call in progress is the monitor's.

\* the number of buffered records at which estimate_memory_usage reaches
\* max_memory_bytes
ForceFlushRecords == 1

\* DataBuffer.estimate_memory_usage, counted in records
EstimateMemoryUsage ==
  SumOver([s \in DOMAIN orderbook_data |-> Len(orderbook_data[s])],
          DOMAIN orderbook_data)
  + SumOver([s \in DOMAIN trade_data |-> Len(trade_data[s])], DOMAIN trade_data)
  + SumOver([s \in DOMAIN liquidation_data |-> Len(liquidation_data[s])],
            DOMAIN liquidation_data)
  + SumOver([s \in DOMAIN kline_data |-> Len(kline_data[s])], DOMAIN kline_data)
  + Len(funding_data)

\* DataBuffer.needs_force_flush
NeedsForceFlush == EstimateMemoryUsage >= ForceFlushRecords

\* force_flush_monitor wakes, finds the threshold reached and calls
\* flush_now
ForcedFlushBegin ==
  /\ main.pc = "waiting"
  /\ "force_flush_monitor" \in main.alive
  /\ NeedsForceFlush
  /\ FlushNowEnter
  /\ main' = [main EXCEPT !.forced = TRUE]

\* force_flush_monitor: flush_now returns, and the loop goes on
ForcedFlushReturn ==
  /\ main.forced
  /\ fl.pc = "loop"
  /\ fl.i = Len(fl.todo)
  /\ fl' = FlusherIdle
  /\ main' = [main EXCEPT !.forced = FALSE]
  /\ UNCHANGED <<buffer_vars, orderbook_data, disk_vars, flush_stats,
                 pending_queue, crashes, run_vars, syncer_vars>>

\* force_flush_monitor: flush_now raises; nothing catches the exception,
\* and the task ends
ForcedFlushRaised ==
  /\ main.forced
  /\ fl.pc = "raised"
  /\ fl' = FlusherIdle
  /\ main' = [main EXCEPT !.forced = FALSE,
                          !.alive = @ \ {"force_flush_monitor"}]
  /\ UNCHANGED <<buffer_vars, orderbook_data, disk_vars, flush_stats,
                 pending_queue, crashes, run_vars, syncer_vars>>

TriggerNext ==
  \/ FlusherAdd
  \/ FlushNowBegin
  \/ ForcedFlushBegin
  \/ SaveMkstemp
  \/ SaveToParquetPart
  \/ SaveToParquetDone
  \/ SaveRaise
  \/ SaveReplace
  \/ FlushNowRecord
  \/ FlushNowReturn
  \/ FlushNowRaised
  \/ ForcedFlushReturn
  \/ ForcedFlushRaised
  \/ FlusherTick

SpecTriggers == Init /\ [][TriggerNext]_vars

\* ------------------------------------- the integrity logs on their own
\* IntegrityLogger.record_gap and record_sync, each on a log that is empty
\* or that has grown to just below the bound of the gap log, called again
\* and again, with the reset of write_periodic_log in between. The
\* entries of the log drawn are numbered.

\* The log drawn is at most this much shorter than MAX_GAP_BUFFER.
MaxGapStart == 2
\* record_gap is called while it has been called fewer times.
MaxGapCalls == 4

\* a log of n gaps, the i-th of which expected id i
GapLogOf(n) == [i \in 1..n |-> GapRecord("BTCUSDT", i, i + 1, 1)]

\* a log of n sync outcomes, the i-th of which of file i
SyncLogOf(n) == [i \in 1..n |-> RecordSync(<<>>, i, "success")[1]]

\* the lengths of the logs drawn
LogLengths == {0} \cup ((MAX_GAP_BUFFER - MaxGapStart)..MAX_GAP_BUFFER)

GapLogInit ==
  /\ Constructed
  /\ cloud_remote = ""
  /\ \/ probe \in { [op |-> "record_gap", pre |-> <<>>, log |-> GapLogOf(n),
                     calls |-> 0] : n \in LogLengths }
     \/ probe \in { [op |-> "record_sync", pre |-> <<>>, log |-> SyncLogOf(n),
                     calls |-> 0] : n \in LogLengths }

\* a call of record_gap
CallRecordGap(sym) ==
  /\ probe.op = "record_gap"
  /\ probe.calls < MaxGapCalls
  /\ probe' = [probe EXCEPT
                 !.pre = probe.log,
                 !.log = RecordGap(probe.log, sym, 0, probe.calls + 1, now),
                 !.calls = @ + 1]
  /\ UNCHANGED <<store_vars, orderbook_data, collector_vars, books, now,
                 gaps, reconnects, covered, conn_synced, complete, call,
                 init_failed>>

\* a call of record_sync
CallRecordSync(status) ==
  /\ probe.op = "record_sync"
  /\ probe.calls < MaxGapCalls
  /\ probe' = [probe EXCEPT
                 !.pre = probe.log,
                 !.log = RecordSync(probe.log, 0, status),
                 !.calls = @ + 1]
  /\ UNCHANGED <<store_vars, orderbook_data, collector_vars, books, now,
                 gaps, reconnects, covered, conn_synced, complete, call,
                 init_failed>>

\* write_periodic_log: the reset, which clears the gaps and leaves the
\* sync outcomes
ResetLog ==
  /\ probe.op \in {"record_gap", "record_sync"}
  /\ probe.calls > 0
  /\ probe' = (IF probe.op = "record_gap"
               THEN [probe EXCEPT !.pre = <<>>, !.log = <<>>, !.calls = 0]
               ELSE probe)
  /\ UNCHANGED <<store_vars, orderbook_data, collector_vars, books, now,
                 gaps, reconnects, covered, conn_synced, complete, call,
                 init_failed>>

GapLogNext ==
  \/ \E sym \in UpperSymbols : CallRecordGap(sym)
  \/ \E status \in {"success", "failed"} : CallRecordSync(status)
  \/ ResetLog

SpecGapLog == GapLogInit /\ [][GapLogNext]_vars

\* ------------------------------------------------------------ claims
\* the numeric value of a quantity string, in hundredths
QtyValue(q) ==
  CASE q = "1.5" -> 150
    [] q = "2.5" -> 250
    [] OTHER -> 0

\* what the claims read off the last call of apply_diff
CallIsDiff == call.op = "apply_diff" /\ call.pre.initialized
CallExpected == call.pre.last_update_id + 1
CallStale == call.final_update_id < CallExpected
CallContinuous ==
  call.first_update_id <= CallExpected /\ CallExpected <= call.final_update_id
CallElapsed == call.t - call.pre.init_time
CallGap ==
  [timestamp |-> call.t, symbol |-> call.sym,
   expected_id |-> CallExpected, actual_id |-> call.first_update_id]
CallUnchanged == books[call.sym] = call.pre /\ gaps = call.pregaps
TreatedAsGap ==
  ~books[call.sym].initialized /\ Len(gaps) = Len(call.pregaps) + 1

\* C1: every snapshot in the buffer was produced from a book whose
\* snapshot and applied diffs carry every update id up to the snapshot's
\* last_update_id, and no book is ahead of the ids it was given.
C1_SnapshotsMissNoId ==
  \A s \in UpperSymbols :
    /\ Len(complete[s]) = Len(orderbook_data[s])
    /\ \A k \in 1..Len(complete[s]) : complete[s][k]
    /\ books[s].last_update_id <= covered[s]

\* C1 witness: after a failed connection and a gap of its book, a
\* re-initialized book has produced a snapshot that is in the buffer.
C1_Witness ==
  \E s \in UpperSymbols :
    /\ reconnects # <<>>
    /\ \E g \in 1..Len(gaps) :
         gaps[g].symbol = s /\ gaps[g].timestamp <= books[s].init_time
    /\ books[s].initialized
    /\ orderbook_data[s] # <<>>
    /\ orderbook_data[s][Len(orderbook_data[s])].last_update_id
         = books[s].last_update_id
    /\ orderbook_data[s][Len(orderbook_data[s])].recv_time >= books[s].init_time

\* C2: on an initialized book validate_sequence returns true exactly when
\* F <= s+1 <= L, and once the grace period is over a diff that is not
\* stale is treated as a gap exactly when that fails.
C2_ContinuityDecidesGap ==
  /\ (call.op = "validate_sequence" /\ call.pre.initialized)
       => (call.ret[1] <=> CallContinuous)
  /\ (CallIsDiff /\ ~CallStale /\ CallElapsed >= GracePeriod)
       => (TreatedAsGap <=> ~CallContinuous)

\* C2 witness: past the grace period, a diff that bridges s+1 was applied
\* and was not treated as a gap.
C2_Witness ==
  /\ CallIsDiff /\ ~CallStale /\ CallElapsed >= GracePeriod
  /\ CallContinuous
  /\ ~TreatedAsGap
  /\ call.ret # <<>>

\* C3: a diff that is not stale and fails continuity after the grace
\* period records one gap (symbol, expected = s+1, actual = F, time),
\* marks the book uninitialized and returns None.
C3_GapIsRecorded ==
  (CallIsDiff /\ ~CallStale /\ ~CallContinuous /\ CallElapsed >= GracePeriod)
    => /\ gaps = Append(call.pregaps, CallGap)
       /\ ~books[call.sym].initialized
       /\ books[call.sym] = [call.pre EXCEPT !.initialized = FALSE]
       /\ call.ret = <<>>

\* C3 witness: such a gap has just been recorded.
C3_Witness ==
  /\ CallIsDiff /\ ~CallStale /\ ~CallContinuous /\ CallElapsed >= GracePeriod
  /\ gaps # <<>>
  /\ gaps[Len(gaps)].expected_id # gaps[Len(gaps)].actual_id

\* C4: a diff that passes continuity sets last_update_id to its u, which
\* is above the old value, and returns a snapshot carrying u; no call of
\* apply_diff lowers last_update_id, and none that returns a snapshot
\* leaves it equal.
C4_AppliedDiffAdvances ==
  CallIsDiff =>
    /\ CallContinuous =>
         /\ books[call.sym].last_update_id = call.final_update_id
         /\ call.final_update_id > call.pre.last_update_id
         /\ Len(call.ret) = 1
         /\ call.ret[1].last_update_id = call.final_update_id
    /\ books[call.sym].last_update_id >= call.pre.last_update_id
    /\ call.ret # <<>> =>
         books[call.sym].last_update_id > call.pre.last_update_id

\* C4 witness: a diff that overlaps the book (U <= s) was applied.
C4_Witness ==
  /\ CallIsDiff /\ CallContinuous
  /\ call.first_update_id <= call.pre.last_update_id
  /\ call.ret # <<>>

\* C5: a diff with u < s+1 returns None and changes neither the levels,
\* last_update_id, the initialized flag nor the gap log, in the grace
\* period and after it.
C5_StaleDiffIsNoOp ==
  (CallIsDiff /\ CallStale) => (call.ret = <<>> /\ CallUnchanged)

\* C5 witness: a stale diff that names a level of the book arrived after
\* the grace period.
C5_Witness ==
  /\ CallIsDiff /\ CallStale
  /\ CallElapsed >= GracePeriod
  /\ call.bids # <<>>
  /\ DictHas(call.pre.bids, call.bids[1][1])

\* C6: a diff that is not stale and fails continuity less than the grace
\* period after initialize returns None, records no gap and leaves the
\* book, still initialized, as it was.
C6_GracePeriodSkips ==
  (CallIsDiff /\ ~CallStale /\ ~CallContinuous /\ CallElapsed < GracePeriod)
    => /\ call.ret = <<>>
       /\ CallUnchanged
       /\ books[call.sym].initialized

\* C6 witness: such a diff arrived in the last second of the grace period.
C6_Witness ==
  /\ CallIsDiff /\ ~CallStale /\ ~CallContinuous
  /\ CallElapsed = GracePeriod - 1
  /\ call.ret = <<>>

\* what C7 says of one price after _apply_updates: the last update naming
\* it decides, a zero quantity removing it and any other setting it
C7_PriceFollowsUpdates(price) ==
  LET named == {k \in 1..Len(probe.updates) : probe.updates[k][1] = price}
      lastk == CHOOSE k \in named : \A j \in named : j <= k
  IN IF named = {}
     THEN DictGet(probe.out, price) = DictGet(probe.book_side, price)
     ELSE IF QtyValue(probe.updates[lastk][2]) = 0
     THEN ~DictHas(probe.out, price)
     ELSE DictGet(probe.out, price) = probe.updates[lastk][2]

\* C7: after a list of level updates is applied in order, a price whose
\* last update has quantity zero is absent, a price whose last update has
\* another quantity holds it, and a price not named is unchanged.
C7_UpdatesFollowQuantities ==
  (probe.op = "_apply_updates" /\ probe.done)
    => \A price \in {"1.0", "2.0"} : C7_PriceFollowsUpdates(price)

\* C8: no bid or ask level of any book holds a quantity of zero.
C8_NoZeroQuantityLevel ==
  \A s \in UpperSymbols :
    /\ \A k \in 1..Len(books[s].bids) : QtyValue(books[s].bids[k][2]) # 0
    /\ \A k \in 1..Len(books[s].asks) : QtyValue(books[s].asks[k][2]) # 0

\* what C9 reads: the prices returned for a side, as numbers
TopPrices(side) == [k \in 1..Len(side) |-> Float(side[k][1])]
\* whether two keys of a dict are one number
HasEqualPrices(d) ==
  \E i, j \in 1..Len(d) : i # j /\ Float(d[i][1]) = Float(d[j][1])
\* whether top is n best entries of dict d, better being given by Better
IsBest(top, d, n, Better(_, _)) ==
  /\ Len(top) = (IF n < Len(d) THEN n ELSE Len(d))
  /\ \A k \in 1..Len(top) : \E i \in 1..Len(d) : d[i] = top[k]
  /\ \A j, k \in 1..Len(top) : j # k => top[j][1] # top[k][1]
  /\ \A i \in 1..Len(d) :
       (\A k \in 1..Len(top) : top[k] # d[i])
         => \A k \in 1..Len(top) : ~Better(Float(d[i][1]), Float(top[k][1]))
Higher(x, y) == x > y
Lower(x, y) == x < y

C11_FailedInitializeDiscardsDiffs ==
  [][\A s \in UpperSymbols :
       s \in init_failed' =>
         /\ books'[s].initialized => books[s].initialized
         /\ s \in init_failed =>
              /\ books'[s] = books[s]
              /\ Len(orderbook_data'[s]) <= Len(orderbook_data[s])]_vars

\* C10: while frames are handled every book has been initialized on the
\* connection they arrive on, and the loop never goes from Connecting to
\* Streaming in one step.
C10_SyncBeforeStreaming ==
  /\ [](pc \in {"Streaming", "Reinit"} => conn_synced = UpperSymbols)
  /\ [][pc = "Connecting" => pc' \in {"Connecting", "Synchronizing", "Disconnected"}]_vars

\* C10 witness: on a connection made after a failure, a diff was applied
\* and its snapshot is in the buffer.
C10_Witness ==
  /\ pc = "Streaming"
  /\ disconnect_time = 0
  /\ reconnects # <<>>
  /\ \E s \in UpperSymbols :
       /\ orderbook_data[s] # <<>>
       /\ orderbook_data[s][1].recv_time > reconnects[1].timestamp

\* the groups of records: a kind and a symbol, or the funding records
Groups ==
  ({DictKinds[k] : k \in 1..Len(DictKinds)} \X UpperSymbols)
    \cup {<<"funding", "">>}

\* the records that a result of flush, or the live buffer, holds for a group
Held(result, g) == IF g[1] = "funding" THEN result.funding ELSE result[g[1]][g[2]]

\* the groups, listed
GroupList ==
  Concat([k \in 1..Len(DictKinds) |->
            [i \in 1..Len(Symbols) |-> <<DictKinds[k], Upper(Symbols[i])>>]])
    \o << <<"funding", "">> >>

RECURSIVE HeldUpTo(_, _)
\* how many records a result holds in the first n groups of the list
HeldUpTo(result, n) ==
  IF n = 0 THEN 0
  ELSE Len(Held(result, GroupList[n])) + HeldUpTo(result, n - 1)

\* the records that a result holds, and how many it holds over all groups
HeldRecords(result) ==
  UNION {{Held(result, g)[i] : i \in 1..Len(Held(result, g))} : g \in Groups}
HeldCount(result) == HeldUpTo(result, Len(GroupList))

\* whether a result holds each of the records of a set once, and no other
HoldsOnce(result, records) ==
  /\ HeldRecords(result) = records
  /\ HeldCount(result) = Cardinality(records)

\* whether the records of every group are held in the order of their adds
InAppendOrder(result) ==
  \A g \in Groups : \A i, j \in 1..Len(Held(result, g)) :
    i < j => Held(result, g)[i] < Held(result, g)[j]

\* C12: every record added is returned by exactly one drain, the first
\* one made after its add, and by no other; until then it is held once
\* by the live buffer, which after a drain holds only what was added
\* since; every result keeps the order of the adds, and no add made
\* after a drain shows in that drain's result.
C12_EveryRecordDrainedOnce ==
  /\ \A d \in 1..Len(drains) :
       /\ HoldsOnce(drains[d], {r \in 1..Len(added) : added[r].drain = d})
       /\ InAppendOrder(drains[d])
  /\ HoldsOnce(FlushResult, {r \in 1..Len(added) : added[r].drain > Len(drains)})
  /\ InAppendOrder(FlushResult)

\* C12 witness: two drains have each returned a record, and a record
\* added since the second is held by the live buffer alone.
C12_Witness ==
  /\ Len(drains) = 2
  /\ Len(added) = 3
  /\ added[1].drain = 1 /\ added[2].drain = 2 /\ added[3].drain = 3
  /\ HeldRecords(drains[1]) = {1}
  /\ HeldRecords(drains[2]) = {2}
  /\ HeldRecords(FlushResult) = {3}

\* C13: a record is held, by the live buffer and by every result of a
\* drain, only under the kind and the symbol it was added under.
C13_RecordsStayInTheirGroup ==
  \A g \in Groups :
    /\ \A i \in 1..Len(Held(FlushResult, g)) :
         LET a == added[Held(FlushResult, g)[i]]
         IN <<a.kind, a.symbol>> = g
    /\ \A d \in 1..Len(drains) : \A i \in 1..Len(Held(drains[d], g)) :
         LET a == added[Held(drains[d], g)[i]]
         IN <<a.kind, a.symbol>> = g

\* C13 witness: a drain has returned records of two kinds of one symbol,
\* and the live buffer holds a record of the other symbol.
C13_Witness ==
  /\ Len(drains) >= 1
  /\ \E s \in UpperSymbols, t \in UpperSymbols :
       /\ s # t
       /\ drains[1].trade[s] # <<>>
       /\ drains[1].kline[s] # <<>>
       /\ orderbook_data[t] # <<>>

\* the published files of a file system: those that are not temporary
Published(fs) == [p \in {q \in DOMAIN fs : IsParquet(q)} |-> fs[p]]

\* the temporary files of a file system
Temporary(fs) == {p \in DOMAIN fs : ~IsParquet(p)}

\* C14: a published file keeps its contents: no step of any flush_now
\* changes or replaces the records of a file that is published.
C14_PublishedFilesImmutable ==
  [][\A p \in DOMAIN Published(files) :
       p \in DOMAIN files' => files'[p].records = files[p].records]_vars

\* C15: every entry of the ledger whose file exists records the hash of
\* what the file holds now.
C15_LedgerMatchesFiles ==
  \A k \in 1..Len(ledger) :
    ledger[k].filename \in DOMAIN files =>
      ledger[k].sha256 = Sha256(files[ledger[k].filename])

\* C16: every file under a published name holds all of its records; a
\* write that raises leaves the published files as they were and its
\* temporary file removed; a kill of the process changes no file, so
\* that the temporary files are at most the one being written and one
\* orphan per kill.
C16_PublishedFilesAreComplete ==
  /\ [](/\ \A p \in DOMAIN Published(files) : files[p].complete
        /\ Cardinality(Temporary(files)) <=
             crashes + (IF fl.pc \in {"to_parquet", "writing", "replace"}
                        THEN 1 ELSE 0))
  /\ [][(fl.pc # "raised" /\ fl'.pc = "raised") =>
          /\ Published(files') = Published(files)
          /\ fl.tmp_path \notin DOMAIN files']_vars
  /\ [][crashes' # crashes => files' = files]_vars

\* C16 witness: the process was killed while the file of a group was
\* being written, after the file of another group was published: what
\* is left is the published file and a partly written temporary file.
C16_Witness ==
  /\ crashes = 1
  /\ fl.pc = "idle"
  /\ \E p \in Temporary(files) : ~files[p].complete /\ files[p].records # <<>>
  /\ DOMAIN Published(files) # {}

\* C17: a flush_now that ran to its end has written one file for every
\* group that was not empty in the drained data, under the name of the
\* symbol, the kind and the minute of the flush (of "funding_rate" and
\* the minute for the funding records), holding the group's records;
\* it has written no other file, and has appended one ledger entry and
\* made one call of the hook per file, in that order.
C17_OneFilePerNonEmptyGroup ==
  (fl.pc = "loop" /\ fl.i = Len(fl.todo)) =>
    LET minute == fl.now \div 60
        NameOf(g) == IF g[1] = "funding" THEN <<"funding", "rate", minute>>
                     ELSE <<g[2], g[1], minute>>
        nonempty == {g \in Groups : Held(fl.data, g) # <<>>}
        n == Len(fl.created_files)
    IN /\ n = Cardinality(nonempty)
       /\ \A g \in nonempty :
            /\ \E k \in 1..n : fl.created_files[k] = NameOf(g)
            /\ NameOf(g) \in DOMAIN files
            /\ files[NameOf(g)].records = Held(fl.data, g)
            /\ files[NameOf(g)].complete
       /\ \A p \in DOMAIN files :
            (\A k \in 1..n : fl.created_files[k] # p) =>
              p \in DOMAIN fl.files0 /\ files[p] = fl.files0[p]
       /\ Len(ledger) = Len(fl.ledger0) + n
       /\ SubSeq(ledger, 1, Len(fl.ledger0)) = fl.ledger0
       /\ \A k \in 1..n :
            ledger[Len(fl.ledger0) + k].filename = fl.created_files[k]
       /\ pending_queue = fl.queue0 \o fl.created_files

\* C17 witness: a flush_now of two groups, one of them the funding
\* records, has run to its end.
C17_Witness ==
  /\ fl.pc = "loop"
  /\ fl.i = Len(fl.todo)
  /\ Len(fl.created_files) = 2
  /\ fl.data.funding # <<>>

\* C18: when the write of a group's file has raised, flush_now leaves
\* only after a write was attempted for every group it drained.
C18_FailureSkipsNoGroup ==
  fl.pc = "raised" => fl.i = Len(fl.todo)

\* a data file is due for deletion: it is as old as the retention
\* period or older and its path is in the set of the uploaded files
DueForDeletion(path) ==
  /\ now - files[path].mtime >= CleanupDays * DaySeconds
  /\ path \in synced_files

\* the step of cleanup_old_files
CleanupStep == sy.pc = "loop" /\ sy'.pc = "sleep"

\* the elements of a list
Elements(list) == {list[i] : i \in 1..Len(list)}

UploadEnds == sy.pc = "upload" /\ sy'.pc = "loop"

\* the entries that a step has appended to a list
Appended(before, after) == SubSeq(after, Len(before) + 1, Len(after))

\* the step has appended entries to the list and changed nothing else of it
Extended(before, after) ==
  /\ Len(after) > Len(before)
  /\ SubSeq(after, 1, Len(before)) = before

\* the outcome of an upload that returned 0: the path joins the uploaded
\* files, the queue stays as it is and one success is recorded
EndsInSuccess ==
  /\ synced_files' = synced_files \cup {SyPath}
  /\ pending_queue' = pending_queue
  /\ sync_events' = Append(sync_events, [filepath |-> SyPath, status |-> "success"])

\* the outcome of an upload that failed: the path is put back into the
\* queue, the uploaded files stay as they are and the failure is recorded
EndsInFailure ==
  /\ synced_files' = synced_files
  /\ Extended(pending_queue, pending_queue')
  /\ Elements(Appended(pending_queue, pending_queue')) = {SyPath}
  /\ Extended(sync_events, sync_events')
  /\ Elements(Appended(sync_events, sync_events'))
       = {[filepath |-> SyPath, status |-> "failed"]}

\* C20: sync_file starts an upload only with a remote configured, and
\* every upload ends in exactly one of two outcomes: with return code 0
\* the path is added to _synced_files, is not put back into
\* _pending_queue and a success is recorded; with another return code or
\* an exception the path is put back into _pending_queue, is not added to
\* _synced_files and a failure is recorded.
C20_UploadEndsInOneOutcome ==
  /\ [](sy.pc = "upload" => cloud_remote # "")
  /\ [][UploadEnds =>
          /\ sy'.returncode \in {"0", "1", "exception"}
          /\ sy'.returncode = "0" => EndsInSuccess /\ ~EndsInFailure
          /\ sy'.returncode # "0" => EndsInFailure /\ ~EndsInSuccess]_vars

\* an upload has just failed for a file that is back in the queue and
\* not among the uploaded ones, after one that succeeded for another
\* file, which is among the uploaded ones and not in the queue
C20_Witness ==
  /\ sy.pc = "loop"
  /\ sy.i > 0
  /\ sy.returncode \in {"1", "exception"}
  /\ SyPath \in Elements(pending_queue)
  /\ SyPath \notin synced_files
  /\ [filepath |-> SyPath, status |-> "failed"] \in Elements(sync_events)
  /\ \E p \in synced_files :
       /\ p \notin Elements(pending_queue)
       /\ [filepath |-> p, status |-> "success"] \in Elements(sync_events)

\* the paths handed to enqueue_file since the process started: flush_now
\* hands over a path in the step in which it appends it to the ledger
Announced == {ledger[i].filename : i \in 1..Len(ledger)}

\* the files of the batch that Syncer.run has still to finish: the one
\* whose upload it awaits and those after it
BatchLeft ==
  {sy.retry_queue[k] :
     k \in (IF sy.pc = "upload" THEN sy.i ELSE sy.i + 1)..Len(sy.retry_queue)}

\* an announced file that is on disk and not among the uploaded ones
AwaitsUpload(path) ==
  /\ path \in Announced
  /\ path \in DOMAIN files
  /\ path \notin synced_files

\* C21: with a remote configured, a file that was handed to enqueue_file,
\* is on disk and is not in _synced_files is in _pending_queue or in
\* what is left of the batch of the running cycle, also when it was
\* handed over while the cycle awaited an upload; a cycle takes the whole
\* queue as its batch, passes no file of the batch that is on disk
\* without starting its upload, ends only when the batch is finished,
\* and a failed upload puts the file back, whatever number of failures
\* went before.
C21_PendingUntilUploaded ==
  /\ [](cloud_remote # "" =>
          \A p \in DOMAIN files :
            AwaitsUpload(p) => p \in Elements(pending_queue) \cup BatchLeft)
  /\ [][cloud_remote # "" =>
          /\ (sy.pc = "sleep" /\ sy'.pc = "loop" =>
                sy'.retry_queue = pending_queue /\ sy'.i = 0)
          /\ (sy.pc = "loop" /\ sy'.i # sy.i =>
                /\ sy'.i = sy.i + 1
                /\ sy'.retry_queue = sy.retry_queue
                /\ sy.retry_queue[sy'.i] \in DOMAIN files => sy'.pc = "upload")
          /\ (CleanupStep => sy.i = Len(sy.retry_queue))
          /\ (UploadEnds /\ SyPath \notin synced_files' =>
                SyPath \in Elements(pending_queue'))]_vars

\* the upload of a file that has failed before is awaited once more, and
\* a file that was announced meanwhile waits in the queue
C21_Witness ==
  /\ sy.pc = "upload"
  /\ cloud_remote # ""
  /\ [filepath |-> SyPath, status |-> "failed"] \in Elements(sync_events)
  /\ AwaitsUpload(SyPath)
  /\ \E q \in Elements(pending_queue) :
       /\ q # SyPath
       /\ q \notin Elements(sy.retry_queue)
       /\ AwaitsUpload(q)

\* C22: with cloud_remote unset, _synced_files stays empty, no upload is
\* started and no outcome recorded, and no step removes a data file,
\* whatever its age and however many cycles run.
C22_NoRemoteNoDeletion ==
  /\ [](cloud_remote = "" =>
          /\ synced_files = {}
          /\ sync_events = <<>>
          /\ sy.pc # "upload")
  /\ [][cloud_remote = "" =>
          \A p \in DOMAIN files : IsParquet(p) => p \in DOMAIN files']_vars

\* without a remote, a cycle has run on a batch with a file that was
\* written when another file was already as old as the retention
\* period, and that other file is there
C22_Witness ==
  /\ cloud_remote = ""
  /\ sy.pc = "sleep"
  /\ \E p \in Announced, q \in Elements(sy.retry_queue) :
       /\ p \in DOMAIN files
       /\ q \in DOMAIN files
       /\ files[q].mtime - files[p].mtime >= CleanupDays * DaySeconds

\* C27: a data file is removed only if the bytes it holds have been
\* copied to the remote by an upload that succeeded; a file that was
\* published again under a path in _synced_files stays until an upload of
\* what it holds now has succeeded.
C27_DeletedBytesWereUploaded ==
  [][\A p \in DOMAIN files :
       IsParquet(p) /\ p \notin DOMAIN files'
         => <<p, Sha256(files[p])>> \in sy.uploaded]_vars

\* compute_reconnect_delay
ComputeReconnectDelay(attempt) ==
  IF 2 ^ attempt < MaxDelay THEN 2 ^ attempt ELSE MaxDelay

\* C24: compute_reconnect_delay(k) lies between 1 and 60 and is 2^k until
\* that passes 60; and the delay the spot loop sleeps after the k-th
\* failure in a row since the delay was last reset, k counted from 0, is
\* compute_reconnect_delay(k).
C24_DelayIsComputed ==
  /\ \A k \in 0..MaxFails :
       /\ ComputeReconnectDelay(k) \in BaseDelay..MaxDelay
       /\ 2 ^ k <= MaxDelay => ComputeReconnectDelay(k) = 2 ^ k
       /\ 2 ^ k >= MaxDelay => ComputeReconnectDelay(k) = MaxDelay
  /\ pc = "Disconnected" =>
       /\ fails >= 1
       /\ reconnect_delay = ComputeReconnectDelay(fails - 1)

\* the loop sleeps after its seventh failure in a row, and the delay is
\* the cap, which doubling the sixth delay would have passed
C24_Witness ==
  /\ pc = "Disconnected"
  /\ fails = 7
  /\ reconnect_delay = MaxDelay
  /\ 2 ^ (fails - 1) > MaxDelay

\* C28: the delay goes back to its base only on a connection that has
\* exchanged a message; a connection that is lost while its books are
\* still being initialized leaves the delay as it is, so that such
\* failures in a row wait longer and longer.
C28_ResetOnlyAfterMessage ==
  [][reconnect_delay > BaseDelay /\ reconnect_delay' = BaseDelay
       => pc = "Streaming"]_vars

\* C30: once initialize has failed for a book, no initialize of that book
\* starts from the message path before the loop has slept.
C30_BackoffBeforeReinit ==
  [][pc = "Streaming" /\ pc' = "Reinit"
       => Upper(Symbols[cur']) \notin init_failed]_vars

\* the records that a per-symbol store holds
Total(store) == SumOver([s \in DOMAIN store |-> Len(store[s])], DOMAIN store)

\* C25: a frame takes exactly one route, chosen by its stream tag. A
\* depth frame appends one snapshot if apply_diff returned one and none
\* if it returned None; a trade frame and a liquidation frame each append
\* one record; a candle frame appends one record if the candle is closed
\* and none otherwise; a frame with any other tag leaves the state as it
\* is. Nothing else is appended by the frame.
C25_OneRoutePerFrame ==
  [][frame'.turn # frame.turn =>
       LET route == Route(frame'.stream)
       IN /\ Total(orderbook_data') - Total(orderbook_data) =
               (IF route = "depth" /\ ~frame'.none THEN 1 ELSE 0)
          /\ Total(trade_data') - Total(trade_data) =
               (IF route = "aggTrade" THEN 1 ELSE 0)
          /\ Total(liquidation_data') - Total(liquidation_data) =
               (IF route = "forceOrder" THEN 1 ELSE 0)
          /\ Total(kline_data') - Total(kline_data) =
               (IF route = "kline" /\ frame'.closed THEN 1 ELSE 0)
          /\ funding_data' = funding_data
          /\ route = "none" \/ (route = "kline" /\ ~frame'.closed) =>
               UNCHANGED <<loop_vars, books, gaps, reconnects, orderbook_data,
                           buffer_vars, disk_vars>>]_vars

\* a depth frame has left a snapshot, and the frame handled last is a
\* closed candle, which is the one record of the candles
C25_Witness ==
  /\ Route(frame.stream) = "kline"
  /\ frame.closed
  /\ Total(kline_data) = 1
  /\ Total(orderbook_data) = 1
  /\ Total(trade_data) = 0

\* the book that a depth frame is for
BookOf(stream) == Upper(stream[1])

\* C29: the message path starts initialize for a book exactly when
\* apply_diff returned None on a depth frame and left the book
\* uninitialized; a None for a stale frame or within the grace period, on
\* a book that stays initialized, starts none, and neither does any other
\* frame. While that initialize is awaited the book stays uninitialized
\* and the spot connection handles no further frame, so that no second
\* initialize starts beside it.
C29_OneInitializeInFlight ==
  /\ [](pc = "Reinit" =>
          /\ cur \in 1..Len(Symbols)
          /\ ~books[Upper(Symbols[cur])].initialized)
  /\ [][frame'.turn # frame.turn =>
          IF Route(frame'.stream) = "depth"
          THEN /\ pc = "Streaming"
               /\ pc' = "Reinit" <=>
                    frame'.none /\ ~books'[BookOf(frame'.stream)].initialized
               /\ pc' = "Reinit" => Upper(Symbols[cur']) = BookOf(frame'.stream)
          ELSE pc' = pc /\ cur' = cur]_vars
  /\ [][pc = "Reinit" /\ frame'.turn # frame.turn =>
          frame'.stream \in FuturesStreams(frame'.stream[1])]_vars

\* initialize is awaited on the message path for a book whose last
\* initialize failed, after a depth frame for which apply_diff returned
\* None
C29_Witness ==
  /\ pc = "Reinit"
  /\ Route(frame.stream) = "depth"
  /\ frame.none
  /\ Upper(Symbols[cur]) = BookOf(frame.stream)
  /\ BookOf(frame.stream) \in init_failed

\* C23: whatever fails on a streaming connection (the connect, the
\* snapshot fetch of the synchronization, the receive, the handling of a
\* frame), the loop of that connection goes to its sleep, and from the
\* sleep it comes to attempt a new connection; no failure ends the loop.
C23_FailureLeadsToReconnect ==
  /\ [][fails' = fails + 1 => pc' = "Disconnected"]_vars
  /\ [](pc \in {"Connecting", "Synchronizing", "Streaming", "Disconnected"})
  /\ [](futures.pc \in {"Connecting", "Streaming", "Disconnected"})
  /\ pc = "Disconnected" ~> pc = "Connecting"
  /\ futures.pc = "Disconnected" ~> futures.pc = "Connecting"

\* both loops attempt a connection again, each after a failure and its
\* sleep
C23_Witness ==
  /\ pc = "Connecting"
  /\ fails >= 1
  /\ reconnect_delay > BaseDelay
  /\ futures.pc = "Connecting"
  /\ futures.delay > BaseDelay

\* C26: main returns only after a termination signal has set its event;
\* between the signal and the return it calls flush_now exactly once; if
\* that call raises, the exception is logged and main returns all the
\* same, as it does when the call returns.
C26_ExitAfterSignalAndOneFlush ==
  /\ [](main.pc = "exited" => main.event /\ main.attempts = 1)
  /\ [](main.attempts <= 1 /\ (main.attempts = 1 => main.event))
  /\ [][main'.pc = "exited" /\ main.pc # "exited" =>
          /\ main.pc = "flush_now"
          /\ fl.pc \in {"loop", "raised"}
          /\ main'.logged <=> fl.pc = "raised"]_vars
  /\ [][main.pc = "flush_now" /\ fl.pc = "raised" =>
          main'.pc = "exited"]_vars
  /\ [][main.pc = "exited" => UNCHANGED vars]_vars

\* main has returned after a signal that came when a task had ended
\* earlier, and its one flush_now, which had data to write, raised and
\* was logged
C26_Witness ==
  /\ main.pc = "exited"
  /\ main.event
  /\ main.alive # AllTasks
  /\ main.attempts = 1
  /\ main.logged
  /\ Len(drains) >= 1
  /\ added # <<>>

\* C36: whenever a connection that was streaming is lost, on the spot
\* channel or on the futures channel, by an error or by a close, an
\* entry goes to the reconnect log of the integrity logger.
C36_TransitionsAreReported ==
  [][(pc = "Streaming" /\ pc' \in {"Disconnected", "Connecting"})
       \/ (futures.pc = "Streaming"
             /\ futures'.pc \in {"Disconnected", "Connecting"})
     => Len(reconnects') = Len(reconnects) + 1]_vars

\* C39: the gap log never holds more than MAX_GAP_BUFFER entries. A call
\* of record_gap on a log at the bound keeps the most recent half of the
\* entries, in their order, and appends the new gap; a call on a shorter
\* log keeps every entry and appends the new gap.
C39_GapLogKeepsRecentHalf ==
  probe.op = "record_gap" =>
    /\ Len(probe.log) <= MAX_GAP_BUFFER
    /\ probe.calls > 0 =>
         LET n == Len(probe.pre)
             half == MAX_GAP_BUFFER \div 2
             kept == SubSeq(probe.log, 1, Len(probe.log) - 1)
         IN /\ kept = (IF n >= MAX_GAP_BUFFER
                       THEN SubSeq(probe.pre, n - half + 1, n)
                       ELSE probe.pre)
            /\ probe.log[Len(probe.log)].actual_id = probe.calls
            /\ probe.log[Len(probe.log)].symbol \in UpperSymbols

\* record_gap was called on a log at the bound: half of it and the new
\* gap are left, the oldest of them the entry after the first half
C39_Witness ==
  /\ probe.op = "record_gap"
  /\ probe.calls > 0
  /\ Len(probe.pre) = MAX_GAP_BUFFER
  /\ Len(probe.log) = MAX_GAP_BUFFER \div 2 + 1
  /\ probe.log[1] = probe.pre[MAX_GAP_BUFFER \div 2 + 1]

\* C38: none of the logs of the integrity logger grows beyond the bound
\* that the logger has, MAX_GAP_BUFFER, however often an event is recorded
\* and whether or not the periodic reset runs.
C38_LogsAreBounded ==
  probe.op \in {"record_gap", "record_sync"} =>
    Len(probe.log) <= MAX_GAP_BUFFER

\* C40: every BookSnapshot that apply_diff returns, which the collector
\* appends to the EventBuffer, holds at most N bids and at most N asks, where
\* N is Config.orderbook_top_levels, for every value N is configured to.
C40_SnapshotHoldsConfiguredLevels ==
  \A N \in OrderbookTopLevels :
    (call.op = "apply_diff" /\ call.ret # <<>>) =>
      /\ Len(call.ret[1].bids) <= N
      /\ Len(call.ret[1].asks) <= N

\* C31: when flush_now raises, the loop that called it, be it Flusher.run
\* or force_flush_monitor, keeps running: no task has ended once the
\* exception has left flush_now, so that the loop calls flush_now again at
\* its next tick.
C31_FlushFailureStopsNoTrigger ==
  [][(fl.pc = "raised" /\ fl'.pc = "idle") => main'.alive = main.alive]_vars

\* C37: a failure raised inside a call of the integrity tracker or of the
\* alerting sink stays inside that call: it ends no loop. The loops of
\* periodic_log and daily_summary call nothing else, so neither of them
\* ever ends.
C37_TrackerFailureEndsNoLoop ==
  [][main'.alive \cap {"periodic_log", "daily_summary"}
       = main.alive \cap {"periodic_log", "daily_summary"}]_vars

\* the gaps recorded for an instrument since its book was last initialized:
\* a gap is recorded no sooner than the grace period after init_time, and
\* the gaps of before are no younger than init_time
GapsSinceInit(s) ==
  {i \in 1..Len(gaps) : gaps[i].symbol = s /\ gaps[i].timestamp > books[s].init_time}

\* C35: between two successful initializations of an instrument at most
\* one gap is recorded for it, and with that gap the book is uninitialized.
\* apply_diff on an uninitialized book returns None, records no gap and
\* leaves the book as it is; only initialize ends that.
C35_OneGapPerInitialization ==
  /\ \A s \in UpperSymbols :
        /\ Cardinality(GapsSinceInit(s)) <= 1
        /\ GapsSinceInit(s) # {} => ~books[s].initialized
  /\ (call.op = "apply_diff" /\ ~call.pre.initialized) =>
        /\ call.ret = <<>>
        /\ gaps = call.pregaps
        /\ books[call.sym] = call.pre

\* a diff arrives after a gap has marked the book uninitialized
C35_Witness ==
  /\ call.op = "apply_diff"
  /\ ~call.pre.initialized
  /\ call.pre.init_time > 0
  /\ GapsSinceInit(call.sym) # {}
  /\ call.first_update_id > call.pre.last_update_id + 1

C32_DrainedRecordsAreInOneFile ==
  (fl.pc = "loop" /\ fl.i = Len(fl.todo)) =>
    LET n == Len(fl.created_files)
        base == Len(fl.ledger0)
        InFile(k) == {files[fl.created_files[k]].records[i] :
                        i \in 1..Len(files[fl.created_files[k]].records)}
    IN /\ \A k \in 1..n : fl.created_files[k] \in DOMAIN files
       /\ \A r \in HeldRecords(fl.data) :
            Cardinality({k \in 1..n : r \in InFile(k)}) = 1
       /\ Len(ledger) = base + n
       /\ \A k \in 1..n :
            \E g \in Groups :
              /\ Held(fl.data, g) # <<>>
              /\ files[fl.created_files[k]].records = Held(fl.data, g)
              /\ ledger[base + k].filename = fl.created_files[k]
              /\ ledger[base + k].record_count = Len(Held(fl.data, g))

\* a flush called by the monitor has run to its end with one group of two
\* records
C32_Witness ==
  /\ fl.pc = "loop"
  /\ fl.i = Len(fl.todo)
  /\ main.forced
  /\ Len(fl.created_files) = 1
  /\ ledger[Len(ledger)].record_count = 2

\* C34: whichever of the interval flush, the forced flush and the shutdown
\* flush records a file, and in whatever order they run, the step that
\* records the file grows the ledger by exactly one entry, that of the
\* file, no other step changes the ledger, and the entries of before stay
\* as they were and where they were.
C34_LedgerGrowsByOneEntry ==
  [][/\ (fl.pc = "saved" /\ fl'.pc = "loop") =>
          /\ Len(ledger') = Len(ledger) + 1
          /\ ledger'[Len(ledger')].filename = FlPath
     /\ ledger' # ledger => (fl.pc = "saved" /\ fl'.pc = "loop")
     /\ Len(ledger') >= Len(ledger)
     /\ SubSeq(ledger', 1, Len(ledger)) = ledger]_vars

\* the shutdown flush has recorded a file after an earlier flush did
C34_Witness ==
  /\ main.pc = "flush_now"
  /\ Len(fl.ledger0) >= 1
  /\ Len(ledger) > Len(fl.ledger0)

====
